---------------------------- MODULE Spec2Model ----------------------------
(***************************************************************************)
(* VaultPad client: the zustand store, the bootstrap resolver of App, the  *)
(* credential screens, the MainLayout handlers, the ContentView autosave   *)
(* and the useAutoLock hook, as one state machine.                         *)
(*                                                                         *)
(* Every `await` of a handler is a suspension point: the handler's         *)
(* continuation is a record in `calls` and resumes in a later step, with   *)
(* the collaborator's answer (a value or an error) drawn at that step.     *)
(* A continuation outlives the component that started it: the store is a   *)
(* module-level object, so a resumed handler of an unmounted component     *)
(* still writes the store.  Such a continuation has cur = FALSE.           *)
(***************************************************************************)
EXTENDS Integers, Sequences, FiniteSets, TLC

\* ------------------------------------------------------------------ bounds
\* Poll periods of the auto-lock interval per clock tick resolution: the
\* clock advances in ticks of POLL_MS / TicksPerPoll.
TicksPerPoll == 1
\* Handlers a user starts while this many are still suspended are not
\* modelled (effects of a mount are not limited).
MaxInFlight == 1
\* Commits (handleSave's updateProject) a user's manual flush may add to those
\* in flight: the handler has no guard against a commit in flight.
MaxCommits == 2
\* The reorder requests the model lets overlap.
MaxReorders == 2

\* ------------------------------------------------------- program constants
POLL_MS == 10000
MINUTE_MS == 60000
MAX_ATTEMPTS == 5
MIN_PASSWORD_LEN == 8
DEFAULT_AUTO_LOCK == 5
DEBOUNCE_MS == 1500
SAVED_MS == 2000

\* ------------------------------------------------------------------ values
NULL == "NULL"
NoTimer == -1

Views == {"loading", "init", "master-password-setup", "pin-setup",
          "pin-unlock", "unlock", "main"}

\* The secrets a user may type.  "short" fails the length policy.
MasterA == "master-A-long"
MasterB == "master-B-long"
Passwords == {MasterA, MasterB}
Typed == {MasterA, "short"}

\* The custom secret of the sample item, and what a user types in its place.
CustomB == "custom-B-long"
CustomGuesses == {CustomB, "wrong-pass"}
EditSecrets == {"", CustomB, "short"}
\* What a user types to confirm a custom secret.
Confirms == {"", CustomB, "short", "wrong-pass"}

\* What a user types into the editor.
Contents == {"a1", "a2"}

\* String.length over the strings of the model.
Length(s) ==
    CASE s = "" -> 0
      [] s = "short" -> 5
      [] s = "wrong-pass" -> 10
      [] s = MasterA -> 13
      [] s = MasterB -> 13
      [] s = CustomB -> 13

PinGood == "1234"
PinBad == "0000"
Pins == {PinGood, PinBad}
\* The PIN a user sets up; PinBad is only ever a wrong guess.
SetupPins == {PinGood}

DbFile == "/vault/vaultpad.db"

\* The options of the settings' auto-lock select that the model offers.
AutoLockOptions == {0, 1, DEFAULT_AUTO_LOCK}

PollTicks == TicksPerPoll
TicksPerMinute == (MINUTE_MS \div POLL_MS) * TicksPerPoll
MaxOption == DEFAULT_AUTO_LOCK
\* Date.now() - lastActivity is kept up to this value (it saturates there):
\* beyond every threshold the program compares it with.
IdleCap == MaxOption * TicksPerMinute + PollTicks + 1

VARIABLES
    \* --- store (src/src/store/index.ts)
    view, masterPassword, projects, selectedProjectId, openProject,
    dbPath, idle, autoLockMinutes, hasSavedSession, hasPinCode,
    \* --- collaborators (Rust commands, OS keychain, the database rows)
    backend, db, dbOrder,
    \* --- component-local state and scheduling
    calls, boot, attempts, settings, interval,
    \* --- MainLayout's dialogs and ContentView's buffer
    ui, editor

storeVars == <<view, masterPassword, projects, selectedProjectId, openProject,
               dbPath, idle, autoLockMinutes, hasSavedSession, hasPinCode>>
localVars == <<calls, boot, attempts, settings, interval>>
mainVars == <<ui, editor>>
backendVars == <<backend, db, dbOrder>>
vars == <<storeVars, backendVars, localVars, mainVars>>


\* ------------------------------------------------------------------ helpers
\* JavaScript truthiness of a string | null.
Truthy(s) == s # NULL /\ s # ""

\* a ?? "" of the handlers.
OrEmpty(s) == IF s = NULL THEN "" ELSE s

Min(a, b) == IF a < b THEN a ELSE b

\* Euclid's algorithm, for the clock resolution of the editor's timers.
RECURSIVE GCD(_, _)
GCD(a, b) == IF b = 0 THEN a ELSE GCD(b, a % b)

\* The editor's clock advances in ticks of this many milliseconds.
EDITOR_TICK_MS == GCD(DEBOUNCE_MS, SAVED_MS)
DebounceTicks == DEBOUNCE_MS \div EDITOR_TICK_MS
SavedTicks == SAVED_MS \div EDITOR_TICK_MS

\* `null` of a ProjectListItem | null, of which the model keeps id and name.
NoItem == [id |-> NULL, name |-> ""]

\* `null` of a DecryptedProject | null.
NoProject == [id |-> NULL, name |-> "", content |-> "", has_custom_password |-> FALSE]

\* The locals a suspended handler holds: value is the string it was given (a
\* password, a PIN, a path); mp and sel are the masterPassword and the
\* selectedProjectId of the render whose closure the handler is; the others
\* are the item and the arguments of the item call it made or will make.
NoArg ==
    [value |-> NULL, mp |-> NULL, sel |-> NULL, id |-> NULL, name |-> "",
     content |-> "", password |-> NULL, custom |-> FALSE, was |-> FALSE,
     order |-> <<>>]

Arg(value) == [NoArg EXCEPT !.value = value]

\* A suspended handler: h the handler, pc the await it is suspended at, cur
\* whether the component instance that started it is still mounted, arg its
\* locals, att and buf the attemptsRef and the contentRef of its instance
\* once that is unmounted, k what tells two equal suspended commits apart.
Call(h, pc, arg) ==
    [h |-> h, pc |-> pc, cur |-> TRUE, arg |-> arg, att |-> 0, buf |-> "", k |-> 0]

\* What identifies a suspended handler apart from whether its component is
\* still mounted.
Core(c) == [h |-> c.h, pc |-> c.pc, arg |-> c.arg, k |-> c.k]

\* The handlers whose component blocks a second run while one is in flight
\* (the `loading` state disables the button or returns early).
Busy(h) == \E c \in calls : c.h = h /\ c.cur

\* A user-started handler may suspend.
Room == Cardinality(calls) < MaxInFlight

\* Unmounting a screen: its suspended handlers keep running, detached, with
\* the refs of their instance as they were.
Detach(cs, att, buf) ==
    { IF c.cur
      THEN [c EXCEPT !.cur = FALSE,
                     !.att = IF c.h = "pin" THEN att ELSE c.att,
                     !.buf = IF c.h = "save" THEN buf ELSE c.buf]
      ELSE c : c \in cs }

SettingsClosed == [open |-> FALSE, pinExists |-> FALSE]

\* MainLayout's dialog state after mount.
UiClosed ==
    [customPasswordProject |-> NULL, editTarget |-> NoProject,
     editPassword |-> NULL, newProjectOpen |-> FALSE, deleteTarget |-> NoItem]

\* ContentView's state after mount; debounce and saved are the time left on
\* debounceRef's and savedTimerRef's timers.
EditorInit ==
    [content |-> "", dirty |-> FALSE, saveStatus |-> "idle",
     debounce |-> NoTimer, saved |-> NoTimer]

\* A faulty interval effect that ignores the timeout, to test the formulas
\* about the timer against.
IntervalIgnoringTimeout(v, minutes) ==
    IF v # "main" THEN NoTimer ELSE PollTicks

\* useAutoLock's interval effect: a timer exists only in view "main" with a
\* positive timeout.
IntervalEffect(v, minutes) ==
    IF v # "main" \/ minutes <= 0 THEN NoTimer ELSE PollTicks

\* MainLayout.loadProjects: returns at once without the shared secret,
\* otherwise suspends at listProjects.
LoadEffect(mp) == IF Truthy(mp) THEN {Call("load", "listProjects", NoArg)} ELSE {}

\* ContentView's effect on [openProject?.id]: a newly opened item replaces
\* the buffer.
OpenEffect(ed, oldOp, newOp, mounting) ==
    IF newOp.id # NULL /\ (mounting \/ newOp.id # oldOp.id)
    THEN [ed EXCEPT !.content = newOp.content, !.dirty = FALSE,
                    !.saveStatus = "idle"]
    ELSE ed

\* ContentView's effect on [dirty, handleSave]: it runs when dirty changed;
\* its cleanup clears the timer, and a dirty buffer gets a new one.
DebounceEffect(oldDirty, ed) ==
    IF ed.dirty = oldDirty THEN ed
    ELSE [ed EXCEPT !.debounce = IF ed.dirty THEN DebounceTicks ELSE NoTimer]

\* What React does after a handler wrote the store or component state: App
\* renders the screen of the new view.  A changed view unmounts the old
\* screen (cleanups run: timers are cleared, local state is dropped) and
\* mounts the new one (its effects run).  Within MainLayout, a changed
\* masterPassword re-runs the loadProjects effect, a changed view,
\* autoLockMinutes or lastActivity re-runs the interval effect, and
\* ContentView's effects run as above.
Render(v, mp, minutes, touched, cs, att, st, itv, op, u, ed) ==
    IF v # view
    THEN [calls    |-> Detach(cs, att, editor.content)
                       \cup (IF v = "main" THEN LoadEffect(mp) ELSE {}),
          attempts |-> 0,
          settings |-> SettingsClosed,
          interval |-> IntervalEffect(v, minutes),
          ui       |-> UiClosed,
          editor   |-> IF v = "main"
                       THEN OpenEffect(EditorInit, NoProject, op, TRUE)
                       ELSE EditorInit]
    ELSE [calls    |-> cs \cup (IF v = "main" /\ mp # masterPassword
                                THEN LoadEffect(mp) ELSE {}),
          attempts |-> att,
          settings |-> st,
          interval |-> IF v = "main" /\ (touched \/ minutes # autoLockMinutes)
                       THEN IntervalEffect(v, minutes) ELSE itv,
          ui       |-> u,
          editor   |-> IF v = "main"
                       THEN DebounceEffect(editor.dirty,
                                           OpenEffect(ed, openProject, op, FALSE))
                       ELSE ed]

\* One batch of writes followed by the render it causes.
WriteMain(v, mp, minutes, touched, cs, att, st, itv, op, u, ed) ==
    LET r == Render(v, mp, minutes, touched, cs, att, st, itv, op, u, ed) IN
    /\ view' = v
    /\ masterPassword' = mp
    /\ autoLockMinutes' = minutes
    /\ idle' = IF touched THEN 0 ELSE idle
    /\ openProject' = op
    /\ calls' = r.calls
    /\ attempts' = r.attempts
    /\ settings' = r.settings
    /\ interval' = r.interval
    /\ ui' = r.ui
    /\ editor' = r.editor

\* A batch that writes neither openProject nor the state of MainLayout's
\* dialogs and of ContentView.
Write(v, mp, minutes, touched, cs, att, st, itv) ==
    WriteMain(v, mp, minutes, touched, cs, att, st, itv, openProject, ui, editor)

\* setView(v) alone.
SetView(v, cs) ==
    Write(v, masterPassword, autoLockMinutes, FALSE, cs, attempts, settings, interval)

\* No store write of the session fields; only the suspended handlers change.
Keep(cs) == SetView(view, cs)

\* A batch of MainLayout or ContentView that leaves the session fields alone.
KeepMain(cs, op, u, ed) ==
    WriteMain(view, masterPassword, autoLockMinutes, FALSE, cs, attempts,
              settings, interval, op, u, ed)

\* ----------------------------------------------------------------- database
\* A row: the plaintext it decrypts to, whether it is under a custom secret,
\* the secret it is encrypted under, and whether the keychain holds that
\* custom secret.
Row(name, content, custom, secret, saved) ==
    [name |-> name, content |-> content, custom |-> custom, secret |-> secret,
     saved |-> saved]

EmptyDb == [i \in {} |-> Row("", "", FALSE, NULL, FALSE)]

SampleDb(master) ==
    [i \in {"A", "B"} |->
        IF i = "A" THEN Row("alpha", "a0", FALSE, master, FALSE)
                   ELSE Row("beta", "b0", TRUE, CustomB, FALSE)]

LOCKED_NAME == "locked_custom_password"

\* list_projects: the summaries in sort order; a custom-protected row whose
\* secret is not in the keychain is listed under the placeholder name.
Summary(id, row) ==
    [id |-> id,
     name |-> IF row.custom /\ ~row.saved THEN LOCKED_NAME ELSE row.name,
     has_custom_password |-> row.custom,
     password_saved |-> row.saved]

ListProjects(rows, order) == [k \in 1..Len(order) |-> Summary(order[k], rows[order[k]])]

\* get_project's check of the secret: a custom-protected row opens under its
\* own secret, given or (for an empty argument) taken from the keychain; a
\* shared-protected row opens under the shared secret.
Decrypts(row, password) ==
    IF row.custom
    THEN password = row.secret \/ (password = "" /\ row.saved)
    ELSE password = row.secret

\* The DecryptedProject get_project returns.
Decrypted(id, row) ==
    [id |-> id, name |-> row.name, content |-> row.content,
     has_custom_password |-> row.custom]

CanGet(rows, id, password) == id \in DOMAIN rows /\ Decrypts(rows[id], password)

\* get_project with a custom secret given keeps it in the keychain.
Remembered(rows, id, password) ==
    [i \in DOMAIN rows |->
        IF i = id /\ rows[i].custom /\ password # ""
        THEN [rows[i] EXCEPT !.saved = TRUE] ELSE rows[i]]

\* update_project: the row is re-encrypted under the given secret in the
\* given mode; an empty secret in custom mode means the one in the keychain.
CanUpdate(rows, master, id, password, custom) ==
    /\ id \in DOMAIN rows
    /\ IF custom THEN password # "" \/ (rows[id].custom /\ rows[id].saved)
                 ELSE password = master

Updated(rows, id, name, content, password, custom) ==
    [i \in DOMAIN rows |->
        IF i = id
        THEN Row(name, content, custom,
                 IF custom /\ password = "" THEN rows[i].secret ELSE password,
                 custom)
        ELSE rows[i]]

\* create_project: the id of the one row the model lets a run create.
NewId == "C"
NewName == "gamma"

Created(rows, name, password, custom) ==
    [i \in DOMAIN rows \cup {NewId} |->
        IF i = NewId THEN Row(name, "", custom, password, custom) ELSE rows[i]]

\* reorder_projects: the rows take the order of the ids given; a row the
\* ids do not name keeps its place after them.
Persisted(rows, order, ids) ==
    LET Known(i) == i \in DOMAIN rows
        Unnamed(i) == Known(i) /\ \A k \in 1..Len(ids) : ids[k] # i
    IN SelectSeq(ids, Known) \o SelectSeq(order, Unnamed)

\* delete_project: the row is gone.
Deleted(rows, id) == [i \in DOMAIN rows \ {id} |-> rows[i]]

\* get_project_password: the custom secret the keychain holds, or null.
ProjectPassword(rows, id) ==
    IF id \in DOMAIN rows /\ rows[id].custom /\ rows[id].saved
    THEN rows[id].secret ELSE NULL

\* ------------------------------------------------------------------ initial
BackendInit ==
    { b \in [session : BOOLEAN, savedDbPath : {NULL, DbFile},
             savedMaster : {NULL, MasterA}, pin : {NULL, PinGood},
             master : {NULL, MasterA}] :
        /\ b.master = NULL => (b.savedMaster = NULL /\ b.pin = NULL)
        /\ b.pin # NULL => b.savedMaster # NULL }

Init ==
    /\ view = "loading"
    /\ masterPassword = NULL
    /\ projects = <<>>
    /\ selectedProjectId = NULL
    /\ openProject = NoProject
    /\ dbPath = NULL
    /\ idle = 0
    /\ autoLockMinutes = DEFAULT_AUTO_LOCK
    /\ hasSavedSession = FALSE
    /\ hasPinCode = FALSE
    /\ backend \in BackendInit
    /\ db = (IF backend.master = NULL THEN EmptyDb ELSE SampleDb(backend.master))
    /\ dbOrder = (IF backend.master = NULL THEN <<>> ELSE <<"A", "B">>)
    /\ calls = {}
    /\ boot = [pc |-> "hasSavedSession", cancelled |-> FALSE, dbPath |-> NULL, mp |-> NULL]
    /\ attempts = 0
    /\ settings = SettingsClosed
    /\ interval = NoTimer
    /\ ui = UiClosed
    /\ editor = EditorInit

\* ---------------------------------------------------------------- bootstrap
\* App's effect cleanup: `cancelled = true`.  The App component is the root,
\* so this is the teardown of the whole UI.
BootCancel ==
    /\ boot.pc # "done"
    /\ ~boot.cancelled
    /\ boot' = [boot EXCEPT !.cancelled = TRUE]
    /\ Write(view, masterPassword, autoLockMinutes, FALSE,
             Detach(calls, attempts, editor.content), attempts, settings, NoTimer)
    /\ UNCHANGED <<projects, selectedProjectId, dbPath,
                   hasSavedSession, hasPinCode, backendVars>>

\* The effect's async function returns: its locals are gone.
BootReturn == boot' = [boot EXCEPT !.pc = "done", !.dbPath = NULL, !.mp = NULL]
BootAt(pc) == boot' = [boot EXCEPT !.pc = pc]

\* const saved = await tauri.hasSavedSession()
BootHasSavedSession ==
    /\ boot.pc = "hasSavedSession"
    /\ UNCHANGED <<masterPassword, projects, selectedProjectId, openProject, dbPath,
                   idle, autoLockMinutes, hasPinCode, backendVars, attempts, settings,
                   interval, calls, mainVars>>
    /\ IF boot.cancelled
       THEN BootReturn /\ UNCHANGED <<view, hasSavedSession>>
       ELSE IF ~backend.session
            THEN BootReturn /\ view' = "init" /\ UNCHANGED hasSavedSession
            ELSE BootAt("getSavedDbPath") /\ hasSavedSession' = TRUE /\ UNCHANGED view

\* A faulty test that goes on without a storage location, to test the
\* formulas about the bootstrap against.
NoDbPathIgnored(p) == FALSE

\* if (!dbPath)
NoDbPath(p) == ~Truthy(p)

\* const dbPath = await tauri.getSavedDbPath()
BootGetSavedDbPath ==
    /\ boot.pc = "getSavedDbPath"
    /\ UNCHANGED <<masterPassword, projects, selectedProjectId, openProject, dbPath,
                   idle, autoLockMinutes, hasSavedSession, hasPinCode, backendVars,
                   attempts, settings, interval, calls, mainVars>>
    /\ IF boot.cancelled
       THEN BootReturn /\ UNCHANGED view
       ELSE IF NoDbPath(backend.savedDbPath)
            THEN BootReturn /\ view' = "init"
            ELSE boot' = [boot EXCEPT !.pc = "initDatabase",
                                      !.dbPath = backend.savedDbPath]
                 /\ UNCHANGED view

\* await tauri.initDatabase(dbPath); setDbPath(dbPath)
BootInitDatabase ==
    /\ boot.pc = "initDatabase"
    /\ UNCHANGED <<view, masterPassword, projects, selectedProjectId, openProject,
                   idle, autoLockMinutes, hasSavedSession, hasPinCode, backendVars,
                   attempts, settings, interval, calls, mainVars>>
    /\ IF boot.cancelled
       THEN BootReturn /\ UNCHANGED dbPath
       ELSE BootAt("hasPin") /\ dbPath' = boot.dbPath

\* const pinExists = await tauri.hasPin(); setHasPinCode(pinExists)
BootHasPin ==
    /\ boot.pc = "hasPin"
    /\ UNCHANGED <<masterPassword, projects, selectedProjectId, openProject, dbPath,
                   idle, autoLockMinutes, hasSavedSession, backendVars, attempts,
                   settings, interval, calls, mainVars>>
    /\ IF boot.cancelled
       THEN BootReturn /\ UNCHANGED <<view, hasPinCode>>
       ELSE /\ hasPinCode' = (backend.pin # NULL)
            /\ IF backend.pin # NULL
               THEN BootReturn /\ view' = "pin-unlock"
               ELSE BootAt("getSavedMasterPassword") /\ UNCHANGED view

\* const mp = await tauri.getSavedMasterPassword()
BootGetSavedMasterPassword ==
    /\ boot.pc = "getSavedMasterPassword"
    /\ UNCHANGED <<masterPassword, projects, selectedProjectId, openProject, dbPath,
                   idle, autoLockMinutes, hasSavedSession, hasPinCode, backendVars,
                   attempts, settings, interval, calls, mainVars>>
    /\ IF boot.cancelled
       THEN BootReturn /\ UNCHANGED view
       ELSE IF Truthy(backend.savedMaster)
            THEN boot' = [boot EXCEPT !.pc = "cacheMasterKey",
                                      !.mp = backend.savedMaster]
                 /\ UNCHANGED view
            ELSE BootReturn /\ view' = "unlock"

\* await tauri.cacheMasterKey(mp); setMasterPassword(mp); touchActivity();
\* setView("main")
BootCacheMasterKey ==
    /\ boot.pc = "cacheMasterKey"
    /\ UNCHANGED backendVars
    /\ BootReturn
    /\ UNCHANGED <<projects, selectedProjectId, dbPath,
                   hasSavedSession, hasPinCode>>
    /\ IF boot.cancelled
       THEN UNCHANGED <<view, masterPassword, autoLockMinutes, idle, calls,
                        attempts, settings, interval, openProject, mainVars>>
       ELSE Write("main", boot.mp, autoLockMinutes, TRUE, calls, attempts,
                  settings, interval)

\* A faulty catch that asks for the master password, to test the formulas
\* about a failed bootstrap against.
CaughtToUnlock(cancelled, v) == IF cancelled THEN v ELSE "unlock"

\* A faulty catch that does not look at the cancellation, to test the
\* formulas about a cancelled bootstrap against.
CaughtCancelled(cancelled, v) == "init"

\* A faulty catch that only logs the error, to test the formulas about the
\* end of the bootstrap against.
CaughtSilently(cancelled, v) == v

\* if (!cancelled) setView("init")
Caught(cancelled, v) == IF cancelled THEN v ELSE "init"

\* catch (err) { if (!cancelled) setView("init") }: any of the awaited calls
\* rejects.
BootFail ==
    /\ boot.pc # "done"
    /\ BootReturn
    /\ UNCHANGED <<masterPassword, projects, selectedProjectId, openProject, dbPath,
                   idle, autoLockMinutes, hasSavedSession, hasPinCode, backendVars,
                   attempts, settings, interval, calls, mainVars>>
    /\ view' = Caught(boot.cancelled, view)

Bootstrap ==
    \/ BootHasSavedSession
    \/ BootGetSavedDbPath
    \/ BootInitDatabase
    \/ BootHasPin
    \/ BootGetSavedMasterPassword
    \/ BootCacheMasterKey
    \/ BootFail

\* --------------------------------------------------------------- InitScreen
\* handleCreate / handleOpen up to their first await (the file dialog's answer
\* is the path).
InitPick(kind) ==
    /\ view = "init"
    /\ Room
    /\ ~Busy("init")
    /\ Keep(calls \cup {Call("init", kind, Arg(DbFile))})
    /\ UNCHANGED <<projects, selectedProjectId, dbPath,
                   hasSavedSession, hasPinCode, backendVars, boot>>

InitCreate == InitPick("create:initDatabase")
InitOpen == InitPick("open:initDatabase")

\* handleCreate after initDatabase: a new database file, with no master
\* password yet.
InitCreateDone(c) ==
    /\ c.h = "init" /\ c.pc = "create:initDatabase"
    /\ backend' = [backend EXCEPT !.savedDbPath = c.arg.value, !.master = NULL]
    /\ db' = EmptyDb /\ dbOrder' = <<>>
    /\ dbPath' = c.arg.value
    /\ SetView("master-password-setup", calls \ {c})
    /\ UNCHANGED <<projects, selectedProjectId,
                   hasSavedSession, hasPinCode, boot>>

\* handleOpen after initDatabase: setDbPath, then await hasMasterPassword.
InitOpenDone(c) ==
    /\ c.h = "init" /\ c.pc = "open:initDatabase"
    /\ backend' = [backend EXCEPT !.savedDbPath = c.arg.value]
    /\ UNCHANGED <<db, dbOrder>>
    /\ dbPath' = c.arg.value
    /\ Keep((calls \ {c}) \cup {[c EXCEPT !.pc = "open:hasMasterPassword"]})
    /\ UNCHANGED <<projects, selectedProjectId,
                   hasSavedSession, hasPinCode, boot>>

\* handleOpen after hasMasterPassword.
InitOpenHasMaster(c) ==
    /\ c.h = "init" /\ c.pc = "open:hasMasterPassword"
    /\ SetView(IF backend.master # NULL THEN "unlock" ELSE "master-password-setup",
               calls \ {c})
    /\ UNCHANGED <<projects, selectedProjectId, dbPath,
                   hasSavedSession, hasPinCode, backendVars, boot>>

\* ------------------------------------------------------ MasterPasswordSetup
\* handleSubmit up to `await tauri.setMasterPassword(password)`; a password
\* that fails the validation returns before any call.
SetupSubmit(password, confirm) ==
    /\ view = "master-password-setup"
    /\ Room
    /\ ~Busy("setup")
    /\ ~(Length(password) < MIN_PASSWORD_LEN)
    /\ ~(password # confirm)
    /\ Keep(calls \cup {Call("setup", "setMasterPassword", Arg(password))})
    /\ UNCHANGED <<projects, selectedProjectId, dbPath,
                   hasSavedSession, hasPinCode, backendVars, boot>>

\* setMasterPassword(password); setView("pin-setup")
SetupDone(c) ==
    /\ c.h = "setup"
    /\ backend' = [backend EXCEPT !.master = c.arg.value]
    /\ UNCHANGED <<db, dbOrder>>
    /\ Write("pin-setup", c.arg.value, autoLockMinutes, FALSE, calls \ {c},
             attempts, settings, interval)
    /\ UNCHANGED <<projects, selectedProjectId, dbPath,
                   hasSavedSession, hasPinCode, boot>>

\* ------------------------------------------------------------- UnlockScreen
\* handleSubmit up to `await tauri.verifyMasterPassword(password)`.
UnlockSubmit(password) ==
    /\ view = "unlock"
    /\ Room
    /\ ~Busy("unlock")
    /\ Length(password) # 0
    /\ Keep(calls \cup {Call("unlock", "verifyMasterPassword", Arg(password))})
    /\ UNCHANGED <<projects, selectedProjectId, dbPath,
                   hasSavedSession, hasPinCode, backendVars, boot>>

\* if (!valid) return; setMasterPassword(password); touchActivity(); then
\* `await tauri.hasPin()`.
UnlockVerified(c) ==
    /\ c.h = "unlock" /\ c.pc = "verifyMasterPassword"
    /\ UNCHANGED <<projects, selectedProjectId, dbPath,
                   hasSavedSession, hasPinCode, boot>>
    /\ IF backend.master # NULL /\ c.arg.value = backend.master
       THEN /\ UNCHANGED backendVars
            /\ Write(view, c.arg.value, autoLockMinutes, TRUE,
                     (calls \ {c}) \cup {[c EXCEPT !.pc = "hasPin"]},
                     attempts, settings, interval)
       ELSE /\ UNCHANGED backendVars
            /\ Keep(calls \ {c})

\* setView(pinExists ? "main" : "pin-setup")
UnlockHasPin(c) ==
    /\ c.h = "unlock" /\ c.pc = "hasPin"
    /\ SetView(IF backend.pin # NULL THEN "main" ELSE "pin-setup", calls \ {c})
    /\ UNCHANGED <<projects, selectedProjectId, dbPath,
                   hasSavedSession, hasPinCode, backendVars, boot>>

\* ---------------------------------------------------------------- PinUnlock
\* handleComplete up to `await tauri.verifyPin(completed)`.
PinSubmit(pin) ==
    /\ view = "pin-unlock"
    /\ Room
    /\ ~Busy("pin")
    /\ Keep(calls \cup {Call("pin", "verifyPin", Arg(pin))})
    /\ UNCHANGED <<projects, selectedProjectId, dbPath,
                   hasSavedSession, hasPinCode, backendVars, boot>>

\* verifyPin returned the shared secret: setMasterPassword; touchActivity;
\* setView("main").
PinVerified(c) ==
    /\ c.h = "pin"
    /\ backend.pin # NULL /\ c.arg.value = backend.pin
    /\ UNCHANGED backendVars
    /\ Write("main", backend.savedMaster, autoLockMinutes, TRUE, calls \ {c},
             attempts, settings, interval)
    /\ UNCHANGED <<projects, selectedProjectId, dbPath,
                   hasSavedSession, hasPinCode, boot>>

\* A faulty limit test that lets one more attempt through, to test the
\* formulas about the attempt counter against.
PastLimit(next) == next > MAX_ATTEMPTS

\* if (next >= MAX_ATTEMPTS)
AtLimit(next) == next >= MAX_ATTEMPTS

\* The catch block: attemptsRef.current + 1; at MAX_ATTEMPTS setView("unlock").
\* attemptsRef belongs to the PinUnlock instance that started the handler.
PinRejected(c) ==
    /\ c.h = "pin"
    /\ LET next == (IF c.cur THEN attempts ELSE c.att) + 1 IN
       Write(IF AtLimit(next) THEN "unlock" ELSE view,
             masterPassword, autoLockMinutes, FALSE, calls \ {c},
             IF c.cur THEN next ELSE attempts, settings, interval)
    /\ UNCHANGED <<projects, selectedProjectId, dbPath,
                   hasSavedSession, hasPinCode, backendVars, boot>>

\* The "use master password" button.
PinFallback ==
    /\ view = "pin-unlock"
    /\ SetView("unlock", calls)
    /\ UNCHANGED <<projects, selectedProjectId, dbPath,
                   hasSavedSession, hasPinCode, backendVars, boot>>

\* ----------------------------------------------------------------- PinSetup
\* handleSubmit up to `await tauri.setupPin(pin, masterPassword)`; validate()
\* and the missing shared secret return before any call.
PinSetupSubmit(pin, confirm) ==
    /\ view = "pin-setup"
    /\ Room
    /\ ~Busy("pinsetup")
    /\ pin = confirm
    /\ Truthy(masterPassword)
    /\ Keep(calls \cup {Call("pinsetup", "setupPin",
                             [Arg(pin) EXCEPT !.mp = masterPassword])})
    /\ UNCHANGED <<projects, selectedProjectId, dbPath,
                   hasSavedSession, hasPinCode, backendVars, boot>>

\* setHasSavedSession(true); setHasPinCode(true); setView("main")
PinSetupDone(c) ==
    /\ c.h = "pinsetup"
    /\ backend' = [backend EXCEPT !.pin = c.arg.value, !.savedMaster = c.arg.mp,
                                  !.session = TRUE]
    /\ UNCHANGED <<db, dbOrder>>
    /\ hasSavedSession' = TRUE
    /\ hasPinCode' = TRUE
    /\ SetView("main", calls \ {c})
    /\ UNCHANGED <<projects, selectedProjectId, dbPath, boot>>

\* The skip button: setView("main").
PinSetupSkip ==
    /\ view = "pin-setup"
    /\ SetView("main", calls)
    /\ UNCHANGED <<projects, selectedProjectId, dbPath,
                   hasSavedSession, hasPinCode, backendVars, boot>>

\* An awaited call of a screen handler rejects: the catch block (or, for the
\* handlers without one, the unhandled rejection) writes nothing to the store.
\* PinUnlock's catch is PinRejected.
CallFails(c) ==
    /\ c.h \in {"init", "setup", "unlock", "pinsetup", "settings", "load",
               "select", "custom", "editopen", "edit", "refresh", "new"}
    /\ Keep(calls \ {c})
    /\ UNCHANGED <<projects, selectedProjectId, dbPath,
                   hasSavedSession, hasPinCode, backendVars, boot>>

\* --------------------------------------------------------------- store.lock
\* The fields `lock` writes, from the store state it reads.
\* A faulty lock that keeps the item list, to test the formulas about lock
\* against.
lockKeepingList(state) ==
    [masterPassword    |-> NULL,
     openProject       |-> NoProject,
     projects          |-> projects,
     selectedProjectId |-> NULL,
     view              |-> IF state.hasPinCode THEN "pin-unlock" ELSE "unlock"]

\* A faulty lock whose target depends on the view it is called in, to test
\* the formulas about repeated locks against.
lockByView(state) ==
    [masterPassword    |-> NULL,
     openProject       |-> NoProject,
     projects          |-> <<>>,
     selectedProjectId |-> NULL,
     view              |-> IF state.view = "unlock" THEN "pin-unlock" ELSE "unlock"]

\* The store's lock(): the update it applies to the state.
lock(state) ==
    [masterPassword    |-> NULL,
     openProject       |-> NoProject,
     projects          |-> <<>>,
     selectedProjectId |-> NULL,
     view              |-> IF state.hasPinCode THEN "pin-unlock" ELSE "unlock"]

StoreState ==
    [view |-> view, masterPassword |-> masterPassword, projects |-> projects,
     selectedProjectId |-> selectedProjectId, openProject |-> openProject,
     hasPinCode |-> hasPinCode]

\* A faulty caller that locks without the request, to test the formulas
\* about the cached key against.
NoClearRequest == {}

\* invoke("clear_cached_key").catch(() => {})
ClearRequest == {Call("clearCachedKey", "clear_cached_key", NoArg)}

\* invoke("clear_cached_key").catch(() => {}); lock() -- the three callers
\* (useAutoLock.doLock, the menu action, the settings button) are this pair.
\* The clear request is not awaited: it is in flight when lock() runs.
ClearAndLock ==
    LET u == lock(StoreState) IN
    /\ WriteMain(u.view, u.masterPassword, autoLockMinutes, FALSE,
                 calls \cup ClearRequest,
                 attempts, settings, interval, u.openProject, ui, editor)
    /\ projects' = u.projects
    /\ selectedProjectId' = u.selectedProjectId
    /\ UNCHANGED <<dbPath, hasSavedSession, hasPinCode, backendVars, boot>>

\* The clear_cached_key request settles (either way: the rejection is
\* swallowed).
ClearCachedKeyDone(c) ==
    /\ c.h = "clearCachedKey"
    /\ Keep(calls \ {c})
    /\ UNCHANGED <<projects, selectedProjectId, dbPath,
                   hasSavedSession, hasPinCode, backendVars, boot>>

\* --------------------------------------------------------------- MainLayout
\* The "lock" menu action (the listener lives while MainLayout is mounted).
MenuLock ==
    /\ view = "main"
    /\ ClearAndLock

\* The "settings" menu action: setSettingsOpen(true); SettingsPanel's effect
\* asks hasPin().
SettingsOpen ==
    /\ view = "main"
    /\ Room
    /\ ~settings.open
    /\ Write(view, masterPassword, autoLockMinutes, FALSE,
             calls \cup {Call("settings", "hasPin", NoArg)}, attempts,
             [settings EXCEPT !.open = TRUE], interval)
    /\ UNCHANGED <<projects, selectedProjectId, dbPath,
                   hasSavedSession, hasPinCode, backendVars, boot>>

SettingsClose ==
    /\ view = "main"
    /\ settings.open
    /\ Write(view, masterPassword, autoLockMinutes, FALSE, calls, attempts,
             [settings EXCEPT !.open = FALSE], interval)
    /\ UNCHANGED <<projects, selectedProjectId, dbPath,
                   hasSavedSession, hasPinCode, backendVars, boot>>

\* tauri.hasPin().then(setPinExists): a state setter of the mounted panel.
SettingsHasPin(c) ==
    /\ c.h = "settings" /\ c.pc = "hasPin"
    /\ Write(view, masterPassword, autoLockMinutes, FALSE, calls \ {c}, attempts,
             IF c.cur THEN [settings EXCEPT !.pinExists = (backend.pin # NULL)]
                      ELSE settings,
             interval)
    /\ UNCHANGED <<projects, selectedProjectId, dbPath,
                   hasSavedSession, hasPinCode, backendVars, boot>>

\* The auto-lock select: setAutoLockMinutes(Number(value)).  The click or
\* the key that changes the select is an activity the window listeners record.
SettingsAutoLock(minutes) ==
    /\ view = "main"
    /\ settings.open
    /\ minutes # autoLockMinutes
    /\ Write(view, masterPassword, minutes, TRUE, calls, attempts, settings,
             interval)
    /\ UNCHANGED <<projects, selectedProjectId, dbPath,
                   hasSavedSession, hasPinCode, backendVars, boot>>

\* The "set up PIN" button, shown while the panel believes no PIN exists:
\* onClose(); setView("pin-setup").
SettingsSetupPin ==
    /\ view = "main"
    /\ settings.open
    /\ ~settings.pinExists
    /\ SetView("pin-setup", calls)
    /\ UNCHANGED <<projects, selectedProjectId, dbPath,
                   hasSavedSession, hasPinCode, backendVars, boot>>

\* The "remove PIN" button up to `await tauri.removePin()`.
SettingsRemovePin ==
    /\ view = "main"
    /\ Room
    /\ settings.open
    /\ settings.pinExists
    /\ Keep(calls \cup {Call("settings", "removePin", NoArg)})
    /\ UNCHANGED <<projects, selectedProjectId, dbPath,
                   hasSavedSession, hasPinCode, backendVars, boot>>

\* setPinExists(false); setHasPinCode(false)
RemovePinDone(c) ==
    /\ c.h = "settings" /\ c.pc = "removePin"
    /\ backend' = [backend EXCEPT !.pin = NULL]
    /\ UNCHANGED <<db, dbOrder>>
    /\ hasPinCode' = FALSE
    /\ Write(view, masterPassword, autoLockMinutes, FALSE, calls \ {c}, attempts,
             IF c.cur THEN [settings EXCEPT !.pinExists = FALSE] ELSE settings,
             interval)
    /\ UNCHANGED <<projects, selectedProjectId, dbPath,
                   hasSavedSession, boot>>

\* handleClearSession up to `await tauri.clearSavedSession()`.
SettingsClearSession ==
    /\ view = "main"
    /\ Room
    /\ settings.open
    /\ Keep(calls \cup {Call("settings", "clearSavedSession", NoArg)})
    /\ UNCHANGED <<projects, selectedProjectId, dbPath,
                   hasSavedSession, hasPinCode, backendVars, boot>>

\* setHasSavedSession(false); setView("init")
ClearSessionDone(c) ==
    /\ c.h = "settings" /\ c.pc = "clearSavedSession"
    /\ backend' = [backend EXCEPT !.session = FALSE, !.savedDbPath = NULL,
                                  !.savedMaster = NULL, !.pin = NULL]
    /\ UNCHANGED <<db, dbOrder>>
    /\ hasSavedSession' = FALSE
    /\ SetView("init", calls \ {c})
    /\ UNCHANGED <<projects, selectedProjectId, dbPath,
                   hasPinCode, boot>>

\* The "lock now" button.
SettingsLockNow ==
    /\ view = "main"
    /\ settings.open
    /\ ClearAndLock

\* loadProjects after `await tauri.listProjects()`: setProjects(projects).
LoadDone(c) ==
    /\ c.h = "load"
    /\ projects' = ListProjects(db, dbOrder)
    /\ Keep(calls \ {c})
    /\ UNCHANGED <<selectedProjectId, dbPath, hasSavedSession,
                   hasPinCode, backendVars, boot>>

\* -------------------------------------------------------------- useAutoLock
\* A faulty listener that also drops the shared secret.
ActivityDroppingSecret ==
    /\ view = "main"
    /\ Write(view, NULL, autoLockMinutes, TRUE, calls, attempts, settings, interval)
    /\ UNCHANGED <<projects, selectedProjectId, dbPath,
                   hasSavedSession, hasPinCode, backendVars, boot>>

\* A mousemove, keydown or click while the listeners are registered:
\* touchActivity().
Activity ==
    /\ view = "main"
    /\ Write(view, masterPassword, autoLockMinutes, TRUE, calls, attempts,
             settings, interval)
    /\ UNCHANGED <<projects, selectedProjectId, dbPath,
                   hasSavedSession, hasPinCode, backendVars, boot>>

\* A faulty comparison that locks at the timeout itself, to test the
\* formulas about the poll against.
ExpiredAtTimeout(elapsed, minutes) ==
    elapsed * POLL_MS >= minutes * MINUTE_MS * TicksPerPoll

\* elapsed > autoLockMinutes * 60 * 1000, with elapsed counted in clock ticks.
Expired(elapsed, minutes) ==
    elapsed * POLL_MS > minutes * MINUTE_MS * TicksPerPoll

\* The interval callback.
AutoLockPoll ==
    /\ interval = 0
    /\ IF Expired(idle, autoLockMinutes)
       THEN ClearAndLock
       ELSE /\ interval' = PollTicks
            /\ UNCHANGED <<storeVars, backendVars, calls, boot, attempts, settings,
                           mainVars>>

\* The clock advances by one tick; a due interval callback runs first.
Tick ==
    /\ interval # 0
    /\ idle' = Min(idle + 1, IdleCap)
    /\ interval' = IF interval = NoTimer THEN NoTimer ELSE interval - 1
    /\ UNCHANGED <<view, masterPassword, projects, selectedProjectId, openProject,
                   dbPath, autoLockMinutes, hasSavedSession, hasPinCode,
                   backendVars, calls, boot, attempts, settings, mainVars>>

\* ------------------------------------------------- MainLayout: the items
\* The sidebar and the editor take input while no dialog covers them.
Uncovered == view = "main" /\ ui = UiClosed /\ ~settings.open

\* No item is asked for its secret.
NeedsSecretNever(project) == FALSE

\* An item whose custom secret the keychain does not hold is asked for it.
NeedsSecret(project) == project.has_custom_password /\ ~project.password_saved

\* project.has_custom_password ? "" : (masterPassword ?? "")
Credential(custom, mp) == IF custom THEN "" ELSE OrEmpty(mp)

\* handleSelectProject up to `await tauri.getProject(project.id, password)`.
SelectProject(k) ==
    /\ Uncovered
    /\ k \in 1..Len(projects)
    /\ LET project == projects[k] IN
       IF NeedsSecret(project)
       THEN KeepMain(calls, openProject,
                     [ui EXCEPT !.customPasswordProject = project.id], editor)
       ELSE /\ Room
            /\ KeepMain(calls \cup
                        {Call("select", "getProject",
                              [NoArg EXCEPT
                                 !.id = project.id,
                                 !.password = Credential(project.has_custom_password,
                                                         masterPassword)])},
                        openProject, ui, editor)
    /\ UNCHANGED <<projects, selectedProjectId, dbPath, hasSavedSession,
                   hasPinCode, backendVars, boot>>

\* setSelectedProjectId(project.id); setOpenProject(decrypted)
SelectDone(c) ==
    /\ c.h = "select"
    /\ CanGet(db, c.arg.id, c.arg.password)
    /\ selectedProjectId' = c.arg.id
    /\ KeepMain(calls \ {c}, Decrypted(c.arg.id, db[c.arg.id]), ui, editor)
    /\ UNCHANGED <<projects, dbPath, hasSavedSession, hasPinCode, backendVars, boot>>

\* CustomPasswordDialog's submit: handleCustomPasswordSubmit up to
\* `await tauri.getProject(customPasswordProject.id, password)`.
CustomPasswordSubmit(password) ==
    /\ view = "main"
    /\ ui.customPasswordProject # NULL
    /\ Truthy(password)
    /\ Room
    /\ KeepMain(calls \cup
                {Call("custom", "getProject",
                      [NoArg EXCEPT !.id = ui.customPasswordProject,
                                    !.password = password,
                                    !.mp = masterPassword])},
                openProject, ui, editor)
    /\ UNCHANGED <<projects, selectedProjectId, dbPath, hasSavedSession,
                   hasPinCode, backendVars, boot>>

\* setSelectedProjectId; setOpenProject; setCustomPasswordProject(null);
\* loadProjects()
CustomPasswordDone(c) ==
    /\ c.h = "custom"
    /\ CanGet(db, c.arg.id, c.arg.password)
    /\ db' = Remembered(db, c.arg.id, c.arg.password)
    /\ UNCHANGED <<backend, dbOrder>>
    /\ selectedProjectId' = c.arg.id
    /\ KeepMain((calls \ {c}) \cup LoadEffect(c.arg.mp),
                Decrypted(c.arg.id, db[c.arg.id]),
                IF c.cur THEN [ui EXCEPT !.customPasswordProject = NULL] ELSE ui,
                editor)
    /\ UNCHANGED <<projects, dbPath, hasSavedSession, hasPinCode, boot>>

\* The dialog's cancel: setCustomPasswordProject(null).
CustomPasswordClose ==
    /\ view = "main"
    /\ ui.customPasswordProject # NULL
    /\ KeepMain(calls, openProject, [ui EXCEPT !.customPasswordProject = NULL],
                editor)
    /\ UNCHANGED <<projects, selectedProjectId, dbPath, hasSavedSession,
                   hasPinCode, backendVars, boot>>

\* handleEditProject up to its first await, or to its end when the item is
\* the open one and shared-protected.
EditProject(k) ==
    /\ Uncovered
    /\ k \in 1..Len(projects)
    /\ LET project == projects[k]
           arg == [NoArg EXCEPT !.id = project.id,
                                !.custom = project.has_custom_password]
       IN
       IF NeedsSecret(project)
       THEN KeepMain(calls, openProject,
                     [ui EXCEPT !.customPasswordProject = project.id], editor)
       ELSE IF selectedProjectId = project.id /\ openProject.id # NULL
       THEN IF project.has_custom_password
            THEN /\ Room
                 /\ KeepMain(calls \cup
                             {Call("editopen", "getProjectPassword",
                                   [arg EXCEPT
                                      !.id = openProject.id,
                                      !.name = openProject.name,
                                      !.content = openProject.content,
                                      !.was = openProject.has_custom_password])},
                             openProject, ui, editor)
            ELSE KeepMain(calls, openProject,
                          [ui EXCEPT !.editTarget = openProject,
                                     !.editPassword = NULL], editor)
       ELSE /\ Room
            /\ KeepMain(calls \cup
                        {Call("editopen", "getProject",
                              [arg EXCEPT
                                 !.password = Credential(project.has_custom_password,
                                                         masterPassword)])},
                        openProject, ui, editor)
    /\ UNCHANGED <<projects, selectedProjectId, dbPath, hasSavedSession,
                   hasPinCode, backendVars, boot>>

\* handleEditProject after getProject: on to getProjectPassword for an item
\* listed as custom-protected, else setEditPassword(null); setEditTarget.
EditOpenGot(c) ==
    /\ c.h = "editopen" /\ c.pc = "getProject"
    /\ CanGet(db, c.arg.id, c.arg.password)
    /\ LET d == Decrypted(c.arg.id, db[c.arg.id]) IN
       IF c.arg.custom
       THEN KeepMain((calls \ {c}) \cup
                     {[c EXCEPT !.pc = "getProjectPassword",
                                !.arg.name = d.name,
                                !.arg.content = d.content,
                                !.arg.was = d.has_custom_password]},
                     openProject, ui, editor)
       ELSE KeepMain(calls \ {c}, openProject,
                     IF c.cur THEN [ui EXCEPT !.editTarget = d,
                                              !.editPassword = NULL]
                              ELSE ui,
                     editor)
    /\ UNCHANGED <<projects, selectedProjectId, dbPath, hasSavedSession,
                   hasPinCode, backendVars, boot>>

\* handleEditProject after getProjectPassword: setEditPassword(currentPw);
\* setEditTarget(decrypted).
EditOpenPassword(c) ==
    /\ c.h = "editopen" /\ c.pc = "getProjectPassword"
    /\ KeepMain(calls \ {c}, openProject,
                IF c.cur
                THEN [ui EXCEPT
                        !.editTarget = [id |-> c.arg.id, name |-> c.arg.name,
                                        content |-> c.arg.content,
                                        has_custom_password |-> c.arg.was],
                        !.editPassword = ProjectPassword(db, c.arg.id)]
                ELSE ui,
                editor)
    /\ UNCHANGED <<projects, selectedProjectId, dbPath, hasSavedSession,
                   hasPinCode, backendVars, boot>>

\* A faulty choice that falls back on the shared secret when no new custom
\* secret is typed.
EditSecretShared(useCustomPassword, customPassword, currentPassword, mp) ==
    IF useCustomPassword /\ Length(customPassword) > 0 THEN customPassword
    ELSE OrEmpty(mp)

\* The secret EditProjectDialog.handleSubmit passes to updateProject.
EditSecret(useCustomPassword, customPassword, currentPassword, mp) ==
    IF useCustomPassword
    THEN IF Length(customPassword) > 0 THEN customPassword
         ELSE IF Truthy(currentPassword) THEN currentPassword
         ELSE ""
    ELSE OrEmpty(mp)

\* EditProjectDialog.handleSubmit's validation of the custom secret.
EditValid(project, useCustomPassword, customPassword, customPasswordConfirm) ==
    useCustomPassword =>
        LET switchingToCustom == ~project.has_custom_password
            needsNewPassword == switchingToCustom \/ Length(customPassword) > 0
        IN /\ ~(switchingToCustom /\ Length(customPassword) = 0)
           /\ needsNewPassword =>
                 /\ ~(Length(customPassword) < MIN_PASSWORD_LEN)
                 /\ ~(customPassword # customPasswordConfirm)

\* EditProjectDialog.handleSubmit up to `await tauri.updateProject(...)`.  The
\* onSaved it will call is handleEditSaved of the render that showed the
\* dialog: its editTarget, selectedProjectId and masterPassword.
EditSubmit(useCustomPassword, customPassword, customPasswordConfirm) ==
    /\ view = "main"
    /\ ui.editTarget.id # NULL
    /\ ~Busy("edit")
    /\ Room
    /\ EditValid(ui.editTarget, useCustomPassword, customPassword,
                 customPasswordConfirm)
    /\ KeepMain(calls \cup
                {Call("edit", "updateProject",
                      [NoArg EXCEPT
                         !.id = ui.editTarget.id,
                         !.name = ui.editTarget.name,
                         !.content = ui.editTarget.content,
                         !.password = EditSecret(useCustomPassword, customPassword,
                                                 ui.editPassword, masterPassword),
                         !.custom = useCustomPassword,
                         !.was = ui.editTarget.has_custom_password,
                         !.sel = selectedProjectId,
                         !.mp = masterPassword])},
                openProject, ui, editor)
    /\ UNCHANGED <<projects, selectedProjectId, dbPath, hasSavedSession,
                   hasPinCode, backendVars, boot>>

\* handleEditSaved's refresh of the open item: the secret is chosen by the
\* has_custom_password of editTarget, the item as it was when the dialog
\* opened.
EditSavedRefresh(arg) ==
    IF arg.sel = arg.id
    THEN {Call("refresh", "getProject",
               [NoArg EXCEPT !.id = arg.id,
                             !.password = Credential(arg.was, arg.mp)])}
    ELSE {}

\* updateProject returned; onSaved(): setEditTarget(null);
\* setEditPassword(null); loadProjects(); getProject(target.id, pw).
EditSubmitDone(c) ==
    /\ c.h = "edit"
    /\ CanUpdate(db, backend.master, c.arg.id, c.arg.password, c.arg.custom)
    /\ db' = Updated(db, c.arg.id, c.arg.name, c.arg.content, c.arg.password,
                     c.arg.custom)
    /\ UNCHANGED <<backend, dbOrder>>
    /\ KeepMain((calls \ {c}) \cup LoadEffect(c.arg.mp) \cup EditSavedRefresh(c.arg),
                openProject,
                IF c.cur THEN [ui EXCEPT !.editTarget = NoProject,
                                         !.editPassword = NULL]
                         ELSE ui,
                editor)
    /\ UNCHANGED <<projects, selectedProjectId, dbPath, hasSavedSession,
                   hasPinCode, boot>>

\* .then((p) => setOpenProject(p))
RefreshDone(c) ==
    /\ c.h = "refresh"
    /\ CanGet(db, c.arg.id, c.arg.password)
    /\ KeepMain(calls \ {c}, Decrypted(c.arg.id, db[c.arg.id]), ui, editor)
    /\ UNCHANGED <<projects, selectedProjectId, dbPath, hasSavedSession,
                   hasPinCode, backendVars, boot>>

\* The dialog's cancel: setEditTarget(null); setEditPassword(null).
EditClose ==
    /\ view = "main"
    /\ ui.editTarget.id # NULL
    /\ KeepMain(calls, openProject,
                [ui EXCEPT !.editTarget = NoProject, !.editPassword = NULL], editor)
    /\ UNCHANGED <<projects, selectedProjectId, dbPath, hasSavedSession,
                   hasPinCode, backendVars, boot>>

\* The "new-project" menu action or the sidebar button.
NewProjectOpen ==
    /\ view = "main"
    /\ ~ui.newProjectOpen
    /\ KeepMain(calls, openProject, [ui EXCEPT !.newProjectOpen = TRUE], editor)
    /\ UNCHANGED <<projects, selectedProjectId, dbPath, hasSavedSession,
                   hasPinCode, backendVars, boot>>

NewProjectClose ==
    /\ view = "main"
    /\ ui.newProjectOpen
    /\ KeepMain(calls, openProject, [ui EXCEPT !.newProjectOpen = FALSE], editor)
    /\ UNCHANGED <<projects, selectedProjectId, dbPath, hasSavedSession,
                   hasPinCode, backendVars, boot>>

\* NewProjectDialog.handleSubmit's validation of the custom secret without
\* the comparison with the confirmation.
NewValidUnconfirmed(useCustomPassword, customPassword, customPasswordConfirm) ==
    useCustomPassword => ~(Length(customPassword) < MIN_PASSWORD_LEN)

\* NewProjectDialog.handleSubmit's validation of the custom secret.
NewValid(useCustomPassword, customPassword, customPasswordConfirm) ==
    useCustomPassword =>
        /\ ~(Length(customPassword) < MIN_PASSWORD_LEN)
        /\ ~(customPassword # customPasswordConfirm)

\* NewProjectDialog.handleSubmit up to `await tauri.createProject(...)`: the
\* secret is the custom one typed or the shared one.
NewProjectSubmit(useCustomPassword, customPassword, customPasswordConfirm) ==
    /\ view = "main"
    /\ ui.newProjectOpen
    /\ ~Busy("new")
    /\ Room
    /\ NewValid(useCustomPassword, customPassword, customPasswordConfirm)
    /\ LET password == IF useCustomPassword THEN customPassword ELSE masterPassword IN
       /\ Truthy(password)
       /\ KeepMain(calls \cup
                   {Call("new", "createProject",
                         [NoArg EXCEPT !.name = NewName,
                                       !.password = password,
                                       !.custom = useCustomPassword,
                                       !.mp = masterPassword])},
                   openProject, ui, editor)
    /\ UNCHANGED <<projects, selectedProjectId, dbPath, hasSavedSession,
                   hasPinCode, backendVars, boot>>

\* createProject returned the id: on to listProjects with a shared secret in
\* the closure, else to getProject(id, password).
NewProjectCreated(c) ==
    /\ c.h = "new" /\ c.pc = "createProject"
    /\ NewId \notin DOMAIN db
    /\ db' = Created(db, c.arg.name, c.arg.password, c.arg.custom)
    /\ dbOrder' = Append(dbOrder, NewId)
    /\ UNCHANGED backend
    /\ KeepMain((calls \ {c}) \cup
                {[c EXCEPT !.pc = IF Truthy(c.arg.mp) THEN "listProjects"
                                                      ELSE "getProject",
                           !.arg.id = NewId]},
                openProject, ui, editor)
    /\ UNCHANGED <<projects, selectedProjectId, dbPath, hasSavedSession,
                   hasPinCode, boot>>

\* setProjects(projects); then getProject(id, password).
NewProjectListed(c) ==
    /\ c.h = "new" /\ c.pc = "listProjects"
    /\ projects' = ListProjects(db, dbOrder)
    /\ KeepMain((calls \ {c}) \cup {[c EXCEPT !.pc = "getProject"]},
                openProject, ui, editor)
    /\ UNCHANGED <<selectedProjectId, dbPath, hasSavedSession, hasPinCode,
                   backendVars, boot>>

\* setSelectedProjectId(id); setOpenProject(project); resetAndClose()
NewProjectGot(c) ==
    /\ c.h = "new" /\ c.pc = "getProject"
    /\ CanGet(db, c.arg.id, c.arg.password)
    /\ selectedProjectId' = c.arg.id
    /\ KeepMain(calls \ {c}, Decrypted(c.arg.id, db[c.arg.id]),
                IF c.cur THEN [ui EXCEPT !.newProjectOpen = FALSE] ELSE ui,
                editor)
    /\ UNCHANGED <<projects, dbPath, hasSavedSession, hasPinCode, backendVars, boot>>

\* -------------------------------------------------- MainLayout: the list
\* handleReorderProjects up to `await tauri.reorderProjects(ids)`, for the
\* list with the items at i and j exchanged: setProjects(reordered).  Equal
\* requests do not overlap in the model.
ReorderProjects(i, j) ==
    /\ Uncovered
    /\ i < j /\ j <= Len(projects)
    /\ Cardinality({c \in calls : c.h = "reorder"}) < MaxReorders
    /\ LET reordered == [k \in 1..Len(projects) |->
                            IF k = i THEN projects[j]
                            ELSE IF k = j THEN projects[i] ELSE projects[k]]
           request == Call("reorder", "reorderProjects",
                           [NoArg EXCEPT
                              !.order = [k \in 1..Len(projects) |-> reordered[k].id],
                              !.mp = masterPassword])
       IN /\ \A c \in calls : Core(c) # Core(request)
          /\ projects' = reordered
          /\ KeepMain(calls \cup {request}, openProject, ui, editor)
    /\ UNCHANGED <<selectedProjectId, dbPath, hasSavedSession, hasPinCode,
                   backendVars, boot>>

\* reorderProjects returned: nothing more to do.
ReorderDone(c) ==
    /\ c.h = "reorder"
    /\ dbOrder' = Persisted(db, dbOrder, c.arg.order)
    /\ UNCHANGED <<backend, db>>
    /\ Keep(calls \ {c})
    /\ UNCHANGED <<projects, selectedProjectId, dbPath, hasSavedSession,
                   hasPinCode, boot>>

\* reorderProjects rejected: the catch calls loadProjects().
ReorderFail(c) ==
    /\ c.h = "reorder"
    /\ Keep((calls \ {c}) \cup LoadEffect(c.arg.mp))
    /\ UNCHANGED <<projects, selectedProjectId, dbPath, hasSavedSession,
                   hasPinCode, backendVars, boot>>

\* The sidebar's delete button: setDeleteTarget(project).
DeleteOpen(k) ==
    /\ Uncovered
    /\ k \in 1..Len(projects)
    /\ KeepMain(calls, openProject,
                [ui EXCEPT !.deleteTarget = [id |-> projects[k].id,
                                             name |-> projects[k].name]],
                editor)
    /\ UNCHANGED <<projects, selectedProjectId, dbPath, hasSavedSession,
                   hasPinCode, backendVars, boot>>

\* DeleteProjectDialog: const canDelete = confirmText === projectName
canDelete(confirmText, projectName) == confirmText = projectName

\* DeleteProjectDialog.handleSubmit and handleDeleteProject up to
\* `await tauri.deleteProject(deleteTarget.id)`.  The submit clears the
\* confirmation text, so a second run needs it typed again; the model lets
\* one run at a time.
DeleteSubmit(confirmText) ==
    /\ view = "main"
    /\ ui.deleteTarget.id # NULL
    /\ ~Busy("delete")
    /\ canDelete(confirmText, ui.deleteTarget.name)
    /\ KeepMain(calls \cup
                {Call("delete", "deleteProject",
                      [NoArg EXCEPT !.id = ui.deleteTarget.id,
                                    !.name = ui.deleteTarget.name,
                                    !.value = confirmText,
                                    !.sel = selectedProjectId,
                                    !.mp = masterPassword])},
                openProject, ui, editor)
    /\ UNCHANGED <<projects, selectedProjectId, dbPath, hasSavedSession,
                   hasPinCode, backendVars, boot>>

\* deleteProject returned: the open item is cleared when the closure's
\* selectedProjectId is the deleted id; then listProjects() with a shared
\* secret in the closure, else the finally: setDeleteTarget(null).
DeleteDone(c) ==
    /\ c.h = "delete" /\ c.pc = "deleteProject"
    /\ c.arg.id \in DOMAIN db
    /\ db' = Deleted(db, c.arg.id)
    /\ dbOrder' = Persisted(db', dbOrder, <<>>)
    /\ UNCHANGED backend
    /\ selectedProjectId' = IF c.arg.sel = c.arg.id THEN NULL ELSE selectedProjectId
    /\ KeepMain(IF Truthy(c.arg.mp)
                THEN (calls \ {c}) \cup {[c EXCEPT !.pc = "listProjects"]}
                ELSE calls \ {c},
                IF c.arg.sel = c.arg.id THEN NoProject ELSE openProject,
                IF c.cur /\ ~Truthy(c.arg.mp)
                THEN [ui EXCEPT !.deleteTarget = NoItem] ELSE ui,
                editor)
    /\ UNCHANGED <<projects, dbPath, hasSavedSession, hasPinCode, boot>>

\* listProjects returned: setProjects(projects); finally setDeleteTarget(null).
DeleteListed(c) ==
    /\ c.h = "delete" /\ c.pc = "listProjects"
    /\ projects' = ListProjects(db, dbOrder)
    /\ KeepMain(calls \ {c}, openProject,
                IF c.cur THEN [ui EXCEPT !.deleteTarget = NoItem] ELSE ui, editor)
    /\ UNCHANGED <<selectedProjectId, dbPath, hasSavedSession, hasPinCode,
                   backendVars, boot>>

\* deleteProject or listProjects rejected: the catch logs; finally
\* setDeleteTarget(null).
DeleteFail(c) ==
    /\ c.h = "delete"
    /\ KeepMain(calls \ {c}, openProject,
                IF c.cur THEN [ui EXCEPT !.deleteTarget = NoItem] ELSE ui, editor)
    /\ UNCHANGED <<projects, selectedProjectId, dbPath, hasSavedSession,
                   hasPinCode, backendVars, boot>>

\* -------------------------------------------------------------- ContentView
\* handleContentChange: setContent(value); setDirty(true).
ContentChange(value) ==
    /\ Uncovered
    /\ openProject.id # NULL
    /\ value # editor.content
    /\ KeepMain(calls, openProject, ui,
                [editor EXCEPT !.content = value, !.dirty = TRUE])
    /\ UNCHANGED <<projects, selectedProjectId, dbPath, hasSavedSession,
                   hasPinCode, backendVars, boot>>

\* The least k no suspended commit has.
FreeK(cs) == CHOOSE k \in 0..Cardinality(cs) :
                /\ \A c \in cs : c.h = "save" => c.k # k
                /\ \A j \in 0..(k - 1) : \E c \in cs : c.h = "save" /\ c.k = j

\* The updateProject call of handleSave: the item and the secret are those
\* of openProjectRef and masterPasswordRef, the content that of contentRef.
SaveCall(proj, mp, content, cs) ==
    [Call("save", "updateProject",
          [NoArg EXCEPT !.id = proj.id,
                        !.name = proj.name,
                        !.content = content,
                        !.password = Credential(proj.has_custom_password, mp),
                        !.custom = proj.has_custom_password])
     EXCEPT !.k = FreeK(cs)]

\* handleSave up to `await tauri.updateProject(...)`, from the buffer ed.
handleSave(ed) ==
    IF openProject.id = NULL \/ ~ed.dirty
    THEN KeepMain(calls, openProject, ui, ed)
    ELSE KeepMain(calls \cup {SaveCall(openProject, masterPassword, ed.content, calls)},
                  openProject, ui, [ed EXCEPT !.saveStatus = "saving"])

\* The debounce timer fires.
DebounceFire ==
    /\ editor.debounce = 0
    /\ handleSave([editor EXCEPT !.debounce = NoTimer])
    /\ UNCHANGED <<projects, selectedProjectId, dbPath, hasSavedSession,
                   hasPinCode, backendVars, boot>>

\* Ctrl/Cmd+S with a dirty buffer: clearTimeout(debounceRef.current);
\* handleSave().
Flush ==
    /\ view = "main"
    /\ editor.dirty
    /\ Cardinality({c \in calls : c.h = "save"}) < MaxCommits
    /\ handleSave([editor EXCEPT !.debounce = NoTimer])
    /\ UNCHANGED <<projects, selectedProjectId, dbPath, hasSavedSession,
                   hasPinCode, backendVars, boot>>

\* handleSave after updateProject: setDirty(false); setOpenProject({...proj,
\* content: contentRef.current}); setSaveStatus("saved"); the display timer.
SaveDone(c) ==
    /\ c.h = "save"
    /\ CanUpdate(db, backend.master, c.arg.id, c.arg.password, c.arg.custom)
    /\ db' = Updated(db, c.arg.id, c.arg.name, c.arg.content, c.arg.password,
                     c.arg.custom)
    /\ UNCHANGED <<backend, dbOrder>>
    /\ KeepMain(calls \ {c},
                [id |-> c.arg.id, name |-> c.arg.name,
                 content |-> IF c.cur THEN editor.content ELSE c.buf,
                 has_custom_password |-> c.arg.custom],
                ui,
                IF c.cur THEN [editor EXCEPT !.dirty = FALSE,
                                             !.saveStatus = "saved",
                                             !.saved = SavedTicks]
                         ELSE editor)
    /\ UNCHANGED <<projects, selectedProjectId, dbPath, hasSavedSession,
                   hasPinCode, boot>>

\* A faulty catch that also clears the dirty flag, to test the formulas
\* about a failed commit against.
FailedClean(ed) == [ed EXCEPT !.saveStatus = "error", !.dirty = FALSE]

\* What handleSave's catch does to ContentView's state: setError;
\* setSaveStatus("error").
Failed(ed) == [ed EXCEPT !.saveStatus = "error"]

\* updateProject rejected: handleSave's catch.
SaveFail(c) ==
    /\ c.h = "save"
    /\ KeepMain(calls \ {c}, openProject, ui,
                IF c.cur THEN Failed(editor) ELSE editor)
    /\ UNCHANGED <<projects, selectedProjectId, dbPath, hasSavedSession,
                   hasPinCode, backendVars, boot>>

\* The display timer fires: setSaveStatus("idle").
SavedFire ==
    /\ editor.saved = 0
    /\ KeepMain(calls, openProject, ui,
                [editor EXCEPT !.saveStatus = "idle", !.saved = NoTimer])
    /\ UNCHANGED <<projects, selectedProjectId, dbPath, hasSavedSession,
                   hasPinCode, backendVars, boot>>

\* The editor's clock advances by one tick while a timer runs; a due timer
\* fires first.
EditorTick ==
    /\ editor.debounce # 0 /\ editor.saved # 0
    /\ editor.debounce > 0 \/ editor.saved > 0
    /\ editor' = [editor EXCEPT
                    !.debounce = IF @ = NoTimer THEN NoTimer ELSE @ - 1,
                    !.saved = IF @ = NoTimer THEN NoTimer ELSE @ - 1]
    /\ UNCHANGED <<storeVars, backendVars, localVars, ui>>

\* ------------------------------------------------------------ specification
\* The session machine: bootstrap, the credential screens, settings, lock.
Resume(c) ==
    \/ InitCreateDone(c)
    \/ InitOpenDone(c)
    \/ InitOpenHasMaster(c)
    \/ SetupDone(c)
    \/ UnlockVerified(c)
    \/ UnlockHasPin(c)
    \/ PinVerified(c)
    \/ PinRejected(c)
    \/ PinSetupDone(c)
    \/ SettingsHasPin(c)
    \/ RemovePinDone(c)
    \/ ClearSessionDone(c)
    \/ LoadDone(c)
    \/ ClearCachedKeyDone(c)
    \/ CallFails(c)

Next ==
    \/ BootCancel
    \/ Bootstrap
    \/ InitCreate
    \/ InitOpen
    \/ \E p \in Typed, q \in Typed : SetupSubmit(p, q)
    \/ \E p \in Passwords : UnlockSubmit(p)
    \/ \E p \in Pins : PinSubmit(p)
    \/ PinFallback
    \/ \E p \in SetupPins, q \in Pins : PinSetupSubmit(p, q)
    \/ PinSetupSkip
    \/ MenuLock
    \/ SettingsOpen
    \/ SettingsClose
    \/ SettingsSetupPin
    \/ SettingsRemovePin
    \/ SettingsClearSession
    \/ SettingsLockNow
    \/ \E c \in calls : Resume(c)

Spec == Init /\ [][Next]_vars

\* The session machine when every call the bootstrap awaits returns, with a
\* value or with an error: a step of the bootstrap that stays possible is
\* eventually taken.
SpecBootFair == Spec /\ WF_vars(Bootstrap)

\* The auto-lock monitor with the clock, for a user who returns to a vault
\* with a shared secret and never sets up a PIN (so the PIN unlock screen,
\* which holds no secret and no timer, is not entered).
InitAutoLock ==
    /\ Init
    /\ backend.session
    /\ backend.savedDbPath # NULL
    /\ backend.master # NULL
    /\ backend.pin = NULL

ResumeAutoLock(c) ==
    \/ UnlockVerified(c)
    \/ UnlockHasPin(c)
    \/ SettingsHasPin(c)
    \/ LoadDone(c)
    \/ ClearCachedKeyDone(c)
    \/ CallFails(c)

NextAutoLock ==
    \/ Bootstrap
    \/ \E p \in Passwords : UnlockSubmit(p)
    \/ PinSetupSkip
    \/ MenuLock
    \/ SettingsOpen
    \/ SettingsClose
    \/ \E m \in AutoLockOptions : SettingsAutoLock(m)
    \/ SettingsSetupPin
    \/ SettingsLockNow
    \/ Activity
    \/ AutoLockPoll
    \/ Tick
    \/ \E c \in calls : ResumeAutoLock(c)

SpecAutoLock == InitAutoLock /\ [][NextAutoLock]_vars

\* The items of an unlocked vault.  The run starts where the bootstrap of a
\* returning user without a PIN, and with the shared secret in the keychain,
\* ends: in view "main", loadProjects suspended.
ReturningBackend ==
    [session |-> TRUE, savedDbPath |-> DbFile, savedMaster |-> MasterA,
     pin |-> NULL, master |-> MasterA]

InitVault ==
    /\ view = "main"
    /\ masterPassword = MasterA
    /\ projects = <<>>
    /\ selectedProjectId = NULL
    /\ openProject = NoProject
    /\ dbPath = DbFile
    /\ idle = 0
    /\ autoLockMinutes = DEFAULT_AUTO_LOCK
    /\ hasSavedSession = TRUE
    /\ hasPinCode = FALSE
    /\ backend = ReturningBackend
    /\ db = SampleDb(MasterA)
    /\ dbOrder = <<"A", "B">>
    /\ calls = LoadEffect(MasterA)
    /\ boot = [pc |-> "done", cancelled |-> FALSE, dbPath |-> NULL, mp |-> NULL]
    /\ attempts = 0
    /\ settings = SettingsClosed
    /\ interval = IntervalEffect("main", DEFAULT_AUTO_LOCK)
    /\ ui = UiClosed
    /\ editor = EditorInit

ResumeVault(c) ==
    \/ LoadDone(c)
    \/ SelectDone(c)
    \/ CustomPasswordDone(c)
    \/ EditOpenGot(c)
    \/ EditOpenPassword(c)
    \/ EditSubmitDone(c)
    \/ RefreshDone(c)
    \/ NewProjectCreated(c)
    \/ NewProjectListed(c)
    \/ NewProjectGot(c)
    \/ UnlockVerified(c)
    \/ UnlockHasPin(c)
    \/ ClearCachedKeyDone(c)
    \/ CallFails(c)

NextVault ==
    \/ \E k \in 1..Len(projects) : SelectProject(k)
    \/ \E p \in CustomGuesses : CustomPasswordSubmit(p)
    \/ CustomPasswordClose
    \/ \E k \in 1..Len(projects) : EditProject(k)
    \/ \E u \in BOOLEAN, p \in EditSecrets, q \in Confirms : EditSubmit(u, p, q)
    \/ EditClose
    \/ NewProjectOpen
    \/ NewProjectClose
    \/ \E u \in BOOLEAN, p \in EditSecrets, q \in Confirms :
          NewProjectSubmit(u, p, q)
    \/ MenuLock
    \/ \E p \in Passwords : UnlockSubmit(p)
    \/ PinSetupSkip
    \/ \E c \in calls : ResumeVault(c)

SpecVault == InitVault /\ [][NextVault]_vars

\* The time the shared secret is held: the run starts as SpecVault does, with
\* the secret just obtained and the activity just recorded, and the secret is
\* not obtained again once it was discarded.  So while the secret is held,
\* idle is time it was held without a recorded activity.
ResumeHeld(c) ==
    \/ SettingsHasPin(c)
    \/ LoadDone(c)
    \/ ClearCachedKeyDone(c)
    \/ CallFails(c)

NextHeld ==
    \/ PinSetupSkip
    \/ MenuLock
    \/ SettingsOpen
    \/ SettingsClose
    \/ \E m \in AutoLockOptions : SettingsAutoLock(m)
    \/ SettingsSetupPin
    \/ SettingsLockNow
    \/ Activity
    \/ AutoLockPoll
    \/ Tick
    \/ \E c \in calls : ResumeHeld(c)

SpecHeld == InitVault /\ [][NextHeld]_vars

\* The autosave of the open item.  The run starts where SpecVault is after
\* the list was loaded and the shared-protected item was opened.
InitAutosave ==
    /\ view = "main"
    /\ masterPassword = MasterA
    /\ projects = ListProjects(SampleDb(MasterA), <<"A", "B">>)
    /\ selectedProjectId = "A"
    /\ openProject = Decrypted("A", SampleDb(MasterA)["A"])
    /\ dbPath = DbFile
    /\ idle = 0
    /\ autoLockMinutes = DEFAULT_AUTO_LOCK
    /\ hasSavedSession = TRUE
    /\ hasPinCode = FALSE
    /\ backend = ReturningBackend
    /\ db = SampleDb(MasterA)
    /\ dbOrder = <<"A", "B">>
    /\ calls = {}
    /\ boot = [pc |-> "done", cancelled |-> FALSE, dbPath |-> NULL, mp |-> NULL]
    /\ attempts = 0
    /\ settings = SettingsClosed
    /\ interval = IntervalEffect("main", DEFAULT_AUTO_LOCK)
    /\ ui = UiClosed
    /\ editor = OpenEffect(EditorInit, NoProject,
                           Decrypted("A", SampleDb(MasterA)["A"]), TRUE)

ResumeAutosave(c) ==
    \/ SaveDone(c)
    \/ SaveFail(c)
    \/ ClearCachedKeyDone(c)

NextAutosave ==
    \/ \E v \in Contents : ContentChange(v)
    \/ DebounceFire
    \/ Flush
    \/ SavedFire
    \/ EditorTick
    \/ MenuLock
    \/ \E c \in calls : ResumeAutosave(c)

SpecAutosave == InitAutosave /\ [][NextAutosave]_vars

\* The sidebar's list with an item open: reorder, delete, select.
ConfirmTexts == {"alpha", "beta", LOCKED_NAME}

ResumeList(c) ==
    \/ ReorderDone(c)
    \/ ReorderFail(c)
    \/ LoadDone(c)
    \/ SelectDone(c)
    \/ DeleteDone(c)
    \/ DeleteListed(c)
    \/ DeleteFail(c)
    \/ CallFails(c)

NextList ==
    \/ \E i, j \in 1..Len(projects) : ReorderProjects(i, j)
    \/ \E k \in 1..Len(projects) : SelectProject(k)
    \/ CustomPasswordClose
    \/ \E k \in 1..Len(projects) : DeleteOpen(k)
    \/ \E t \in ConfirmTexts : DeleteSubmit(t)
    \/ \E c \in calls : ResumeList(c)

SpecList == InitAutosave /\ [][NextList]_vars

\* The same handlers from the moment MainLayout is mounted: nothing is open
\* and the first listProjects is in flight.
SpecDelete == InitVault /\ [][NextList]_vars

\* The editor next to the sidebar's handlers: the open item is edited and
\* committed while another item is opened or the edit dialog is used.  The
\* commits are the manual ones; no time passes, so no timer fires; the edit
\* dialog is saved with the item's protection as it is.  What
\* the editor reports is the document after a keystroke, so a typed value is
\* an edit of the buffer: Edits gives the documents one edit away, and Owner
\* the item whose stored text a document descends from.
Edits(content) ==
    CASE content = "a0" -> {"a1"}
      [] content = "a1" -> {"a2"}
      [] content = "b0" -> {"b1"}
      [] OTHER -> {}

Owner(content) == IF content \in {"a0", "a1", "a2"} THEN "A" ELSE "B"

ResumeEditing(c) ==
    \/ SaveDone(c)
    \/ SaveFail(c)
    \/ SelectDone(c)
    \/ CustomPasswordDone(c)
    \/ LoadDone(c)
    \/ EditOpenGot(c)
    \/ EditOpenPassword(c)
    \/ EditSubmitDone(c)
    \/ RefreshDone(c)
    \/ CallFails(c)

NextEditing ==
    \/ \E v \in Edits(editor.content) : ContentChange(v)
    \/ Flush
    \/ \E k \in 1..Len(projects) : SelectProject(k)
    \/ \E p \in CustomGuesses : CustomPasswordSubmit(p)
    \/ CustomPasswordClose
    \/ \E k \in 1..Len(projects) : EditProject(k)
    \/ EditSubmit(ui.editTarget.has_custom_password, "", "")
    \/ EditClose
    \/ \E c \in calls : ResumeEditing(c)

SpecEditing == InitAutosave /\ [][NextEditing]_vars

\* ------------------------------------------------------------------ claims
\* The calls a step leaves suspended that were not suspended before it: a
\* call of a mounted component is new, a call that was detached by an
\* unmount is the one it was.
Issued ==
    {c \in calls' : c \notin calls /\ (c.cur \/ Core(c) \notin {Core(d) : d \in calls})}

\* C1: in every reachable state of the session machine the store holds the
\* shared secret if and only if the view is "main".
SecretIffMain == (masterPassword # NULL) <=> (view = "main")

\* C2: while the store holds no shared secret (from a lock to the next
\* successful unlock) it holds no decrypted data either: no open item, no
\* selected id, an empty item list -- whatever was in flight at the lock.
LockedHoldsNothing ==
    masterPassword = NULL =>
        (openProject = NoProject /\ selectedProjectId = NULL /\ projects = <<>>)

\* C3: a step of the lock action, from any state, ends with the shared
\* secret null, the open item null, the selected id null and the list empty.
LockClears ==
    [][ClearAndLock =>
          /\ masterPassword' = NULL
          /\ openProject' = NoProject
          /\ selectedProjectId' = NULL
          /\ projects' = <<>>]_vars

\* C3 happens: the lock ran while an item was open and a commit of its dirty
\* buffer was in flight, and the store is empty.
LockedWithCommitInFlight ==
    /\ view = "unlock"
    /\ masterPassword = NULL
    /\ openProject = NoProject /\ selectedProjectId = NULL /\ projects = <<>>
    /\ \E c \in calls : c.h = "clearCachedKey"
    /\ \E c \in calls : c.h = "save" /\ ~c.cur /\ c.buf # ""

\* C4: with a positive timeout, the shared secret is never held for longer
\* than the timeout plus one poll period without a recorded activity, in
\* whatever view it is held.
HeldSecretBounded ==
    (masterPassword # NULL /\ autoLockMinutes > 0) =>
        idle * POLL_MS <= (autoLockMinutes * MINUTE_MS + POLL_MS) * TicksPerPoll

\* C5: a poll tick in view "main" with a positive timeout locks and asks for
\* the cached key to be cleared if the time since the last recorded activity
\* exceeds the timeout, and otherwise changes nothing but the time of the
\* next tick, one poll period later.
PollLocksIffExpired ==
    [][(AutoLockPoll /\ view = "main" /\ autoLockMinutes > 0) =>
          IF idle * POLL_MS > autoLockMinutes * MINUTE_MS * TicksPerPoll
          THEN /\ view' \in {"unlock", "pin-unlock"}
               /\ masterPassword' = NULL
               /\ openProject' = NoProject
               /\ selectedProjectId' = NULL
               /\ projects' = <<>>
               /\ \E c \in calls' : c.h = "clearCachedKey"
               /\ interval' = NoTimer
          ELSE /\ interval' = PollTicks
               /\ UNCHANGED <<storeVars, backendVars, calls, boot, attempts,
                              settings, mainVars>>]_vars

\* C5 happens: the session is locked with the timeout exceeded by no more
\* than the poll period -- the tick that found it exceeded locked -- and the
\* request to clear the cached key is in flight.
LockedByPoll ==
    /\ view = "unlock"
    /\ masterPassword = NULL
    /\ autoLockMinutes > 0
    /\ idle * POLL_MS > autoLockMinutes * MINUTE_MS * TicksPerPoll
    /\ idle * POLL_MS <= (autoLockMinutes * MINUTE_MS + POLL_MS) * TicksPerPoll
    /\ interval = NoTimer
    /\ \E c \in calls : c.h = "clearCachedKey"

\* C6: a poll timer exists only in view "main" with a positive timeout, so
\* no poll tick (and no lock by it) happens in any other view or with the
\* timeout 0; leaving "main" or setting the timeout to 0 leaves no timer.
TimerOnlyWhenArmed ==
    /\ interval # NoTimer => (view = "main" /\ autoLockMinutes > 0)
    /\ ENABLED AutoLockPoll => (view = "main" /\ autoLockMinutes > 0)

\* C6 happens: the timeout was set to 0 in view "main", where the secret is
\* held, and no timer is left.
DisabledInMain ==
    /\ view = "main"
    /\ masterPassword # NULL
    /\ autoLockMinutes = 0
    /\ interval = NoTimer
    /\ idle > 0

\* C7: every getProject issued for an item that is custom-protected when the
\* call is made carries a secret other than the shared one, and for a
\* shared-protected item the shared one; every createProject and
\* updateProject carries the shared secret exactly when its flag says
\* shared-protected.
SecretMatchesProtection ==
    [][\A c \in Issued :
          /\ (c.pc = "getProject" /\ c.arg.id \in DOMAIN db') =>
                (db'[c.arg.id].custom <=> c.arg.password # backend.master)
          /\ c.pc \in {"createProject", "updateProject"} =>
                (c.arg.custom <=> c.arg.password # backend.master)]_vars

\* C8: while the editor stays mounted, a pending debounce timer of a dirty
\* buffer goes away only in a step that issues a commit carrying the
\* buffer's content (the timer firing, or a manual flush).
PendingTimerCommits ==
    [][(editor.debounce # NoTimer /\ editor'.debounce = NoTimer /\ view' = "main") =>
          \E c \in Issued : /\ c.h = "save"
                            /\ c.arg.id = openProject.id
                            /\ c.arg.content = editor'.content]_vars

MutationAfterFailureSchedules ==
    [][((\E v \in Contents : ContentChange(v))
            /\ editor.saveStatus = "error" /\ editor.dirty) =>
          editor'.debounce # NoTimer]_vars

\* C11: a commit that completes while the buffer holds content other than
\* the content it carried (a mutation arrived while it was in flight) leaves
\* the buffer dirty; the next debounce cycle then commits the mutated content.
MutationWhileSavingKept ==
    [][\A c \in calls :
          (SaveDone(c) /\ c.cur /\ editor.dirty
                /\ editor.content # c.arg.content) =>
              editor'.dirty]_vars

\* C12: a lock of the session taken while the buffer is dirty issues, in
\* the same step, a commit of the open item carrying the buffer's content.
LockCommitsPending ==
    [][((MenuLock \/ SettingsLockNow \/ AutoLockPoll)
            /\ view = "main" /\ view' # "main"
            /\ editor.dirty /\ openProject.id # NULL) =>
          \E c \in Issued : /\ c.h = "save"
                            /\ c.arg.id = openProject.id
                            /\ c.arg.content = editor.content]_vars

\* C13: at most one commit of the mounted editor is in flight at any time.
OneCommitInFlight ==
    Cardinality({c \in calls : c.h = "save" /\ c.cur}) <= 1

\* C14: a failed PIN verification adds one to the attempt counter of the
\* PinUnlock instance that made it; when that makes MAX_ATTEMPTS the view
\* becomes "unlock", otherwise the view stays.  The counter is 0 whenever
\* "pin-unlock" is entered and outside of it, and never exceeds
\* MAX_ATTEMPTS - 1, so the fifth failure of a stay ends the stay.
PinAttemptsBounded ==
    [][/\ \A c \in calls :
             PinRejected(c) =>
                 LET next == (IF c.cur THEN attempts ELSE c.att) + 1 IN
                 /\ c.cur => view = "pin-unlock"
                 /\ IF next >= MAX_ATTEMPTS
                    THEN view' = "unlock" /\ attempts' = 0
                    ELSE view' = view /\ (c.cur => attempts' = next)
       /\ (view # "pin-unlock" /\ view' = "pin-unlock") => attempts' = 0
       /\ view' # "pin-unlock" => attempts' = 0
       /\ attempts' \in 0..(MAX_ATTEMPTS - 1)]_vars

\* C14 happens: four verifications of this stay have failed and the fifth
\* is in flight.
PinLastAttempt ==
    /\ view = "pin-unlock"
    /\ attempts = MAX_ATTEMPTS - 1
    /\ \E c \in calls : c.h = "pin" /\ c.cur

\* C15: a step of the bootstrap that is not cancelled and not a failure
\* either goes on with the view unchanged and no secret, or ends the
\* bootstrap in the view the collaborator's answers determine: "init" without
\* a saved session or storage location, else "pin-unlock" with a PIN
\* configured, else "main" with the cached secret set (after cacheMasterKey
\* returned) and the activity recorded, else "unlock"; never "setup" or
\* "pin-setup".
BootstrapOutcome ==
    [][((BootHasSavedSession \/ BootGetSavedDbPath \/ BootInitDatabase
            \/ BootHasPin \/ BootGetSavedMasterPassword \/ BootCacheMasterKey)
          /\ ~boot.cancelled) =>
         IF boot'.pc # "done"
         THEN view' = "loading" /\ masterPassword' = NULL
         ELSE /\ view' =
                   IF ~backend.session \/ backend.savedDbPath \in {NULL, ""}
                   THEN "init"
                   ELSE IF backend.pin # NULL THEN "pin-unlock"
                   ELSE IF backend.savedMaster \notin {NULL, ""} THEN "main"
                   ELSE "unlock"
              /\ IF view' = "main"
                 THEN /\ boot.pc = "cacheMasterKey"
                      /\ masterPassword' = backend.savedMaster
                      /\ idle' = 0
                 ELSE masterPassword' = NULL]_vars

\* C15 happens: the bootstrap has ended in "main" with the cached secret,
\* and the list of items is being loaded for the first time.
BootstrappedToMain ==
    /\ boot.pc = "done" /\ ~boot.cancelled
    /\ view = "main"
    /\ hasSavedSession /\ ~hasPinCode
    /\ dbPath = backend.savedDbPath
    /\ masterPassword # NULL /\ masterPassword = backend.savedMaster
    /\ projects = <<>>
    /\ \E c \in calls : c.h = "load" /\ c.cur

\* C16: when a call awaited by the bootstrap fails (the bootstrap not being
\* cancelled), the bootstrap ends in view "init" with no secret in the
\* store, whichever call it was; a failure of cacheMasterKey in particular
\* does not end in "main".
BootstrapFailureToInit ==
    [][(BootFail /\ ~boot.cancelled) =>
          /\ boot.pc \in {"hasSavedSession", "getSavedDbPath", "initDatabase",
                          "hasPin", "getSavedMasterPassword", "cacheMasterKey"}
          /\ boot'.pc = "done"
          /\ view' = "init"
          /\ masterPassword' = NULL]_vars

\* C16 happens: a session and a storage location are saved, and the
\* bootstrap ended in "init" without the location in the store:
\* initDatabase failed.
BootstrapFailedAtOpen ==
    /\ boot.pc = "done" /\ ~boot.cancelled
    /\ view = "init"
    /\ backend.session /\ backend.savedDbPath # NULL
    /\ hasSavedSession /\ dbPath = NULL
    /\ masterPassword = NULL

\* C17: once the bootstrap is cancelled, no step of it (a call returning or
\* failing, whichever call was in flight) changes the store: the view, the
\* storage location, the PIN flag, the saved-session flag, the secret and
\* the activity timestamp stay as they are.
CancelledBootstrapSilent ==
    [][(Bootstrap /\ boot.cancelled) =>
          /\ boot'.pc = "done"
          /\ UNCHANGED <<view, dbPath, hasPinCode, hasSavedSession,
                         masterPassword, idle, autoLockMinutes, projects,
                         selectedProjectId, openProject>>]_vars

\* C17 happens: the bootstrap was cancelled after the saved session was
\* found, and the call then in flight has settled: a storage location is
\* saved, and neither it nor a view is in the store.
CancelledMidway ==
    /\ boot.cancelled /\ boot.pc = "done"
    /\ view = "loading"
    /\ backend.session /\ backend.savedDbPath # NULL
    /\ hasSavedSession /\ dbPath = NULL /\ ~hasPinCode
    /\ masterPassword = NULL

\* C18: every step that enters view "main" records the activity in the same
\* step, so that the time without activity is zero on entry.
EntryRecordsActivity ==
    [][(view # "main" /\ view' = "main") => idle' = 0]_vars

\* C19: a lock lands in view "pin-unlock" exactly when a PIN is configured
\* in the backend at that moment, and in "unlock" otherwise.
LockLandsByPin ==
    [][((MenuLock \/ SettingsLockNow \/ AutoLockPoll)
            /\ view = "main" /\ view' # "main") =>
          view' = (IF backend.pin # NULL THEN "pin-unlock" ELSE "unlock")]_vars

Locked(state) ==
    LET u == lock(state) IN
    [f \in DOMAIN state |-> IF f \in DOMAIN u THEN u[f] ELSE state[f]]

\* C21: in every reachable state of the store, lock applied twice gives the
\* same store state as lock applied once.
LockIdempotent == Locked(Locked(StoreState)) = Locked(StoreState)

\* C21 happens: the session was just locked with a PIN configured (the
\* request to clear the key is still in flight), and a second lock would
\* change nothing.
LockedAgainSame ==
    /\ view = "pin-unlock" /\ hasPinCode
    /\ masterPassword = NULL
    /\ \E c \in calls : c.h = "clearCachedKey"
    /\ Locked(StoreState) = StoreState

\* The ids of a displayed list, in its order.
Ids(list) == [k \in 1..Len(list) |-> list[k].id]

\* C22: a reorder displays the new order at once and requests its
\* persistence; when the request fails a reload of the list is requested,
\* and when that reload has settled the displayed order is the order the
\* storage holds.
ReorderFailureRestores ==
    [][/\ (\E i, j \in 1..Len(projects) : ReorderProjects(i, j)) =>
             \E c \in Issued : /\ c.pc = "reorderProjects"
                               /\ c.arg.order = Ids(projects')
                               /\ projects' # projects
       /\ \A c \in calls :
             ReorderFail(c) => \E d \in calls' : d.pc = "listProjects"
       /\ \A c \in calls :
             (c.h = "load" /\ c \notin calls' /\ DOMAIN db = {"A", "B"}) =>
                 Ids(projects') = dbOrder']_vars

\* C23: with reorder requests overlapping, the step that settles the last
\* of them, with no reload left in flight, ends with the displayed order
\* equal to the order the storage holds.
LastReorderDecides ==
    [][\A c \in calls :
          (/\ ReorderDone(c) \/ ReorderFail(c) \/ (c.h = "load" /\ LoadDone(c))
           /\ \A d \in calls' : d.h \notin {"reorder", "load"}
           /\ DOMAIN db = {"A", "B"}) =>
              Ids(projects') = dbOrder']_vars

\* C24: creating an item with custom protection, or switching an item to it,
\* with a secret shorter than 8 characters or a confirmation that differs
\* makes no step of the dialog's submit, and no createProject or
\* updateProject call in flight carries a new custom secret shorter than 8.
ShortOrUnconfirmedRejected ==
    /\ \A p \in EditSecrets, q \in Confirms :
          (Length(p) < 8 \/ p # q) =>
             /\ ~ENABLED NewProjectSubmit(TRUE, p, q)
             /\ ~ui.editTarget.has_custom_password =>
                   ~ENABLED EditSubmit(TRUE, p, q)
    /\ \A c \in calls :
          (\/ c.pc = "createProject" /\ c.arg.custom
           \/ c.pc = "updateProject" /\ c.arg.custom /\ ~c.arg.was) =>
             Length(c.arg.password) >= 8

\* Both dialogs are open, the edit dialog on a shared-protected item, and each
\* accepts a confirmed secret of 13 characters: only the validation stands
\* between the submit and the call.
DialogsAcceptConfirmed ==
    /\ ui.newProjectOpen
    /\ ui.editTarget.id # NULL /\ ~ui.editTarget.has_custom_password
    /\ ENABLED NewProjectSubmit(TRUE, CustomB, CustomB)
    /\ ENABLED EditSubmit(TRUE, CustomB, CustomB)

\* C25: saving the edit dialog of a custom-protected item with the custom box
\* unticked issues updateProject with the store's shared secret and
\* has_custom_password false; and selecting item B, once the backend holds
\* it shared-protected, issues getProject with the shared secret and raises
\* no request for a custom secret.
SwitchToSharedThenOpens ==
    [][/\ (/\ ui.editTarget.has_custom_password
           /\ \E p \in EditSecrets, q \in Confirms : EditSubmit(FALSE, p, q)) =>
              \E c \in Issued : /\ c.pc = "updateProject"
                                /\ c.arg.id = ui.editTarget.id
                                /\ Truthy(masterPassword)
                                /\ c.arg.password = masterPassword
                                /\ ~c.arg.custom
       /\ \A k \in 1..Len(projects) :
             (/\ projects[k].id = "B"
              /\ "B" \in DOMAIN db /\ ~db["B"].custom
              /\ SelectProject(k)) =>
                 /\ ui'.customPasswordProject = NULL
                 /\ \E c \in Issued : /\ c.pc = "getProject"
                                      /\ c.arg.id = "B"
                                      /\ c.arg.password = masterPassword]_vars

\* C26: selecting or editing an item listed as custom-protected with no saved
\* secret issues no call and only sets customPasswordProject; an item the
\* backend holds custom-protected without its secret in the keychain becomes
\* the open item only in a step where a getProject carrying a typed secret
\* that decrypts it returns; closing the dialog, or a getProject of the
\* dialog that is rejected, leaves openProject and selectedProjectId alone.
LockedItemAsksFirst ==
    [][/\ \A k \in 1..Len(projects) :
             (/\ projects[k].has_custom_password /\ ~projects[k].password_saved
              /\ SelectProject(k) \/ EditProject(k)) =>
                 /\ calls' = calls
                 /\ ui'.customPasswordProject = projects[k].id
                 /\ openProject' = openProject
                 /\ selectedProjectId' = selectedProjectId
       /\ \A i \in DOMAIN db :
             (/\ db[i].custom /\ ~db[i].saved
              /\ openProject'.id = i
              /\ openProject' # openProject \/ selectedProjectId' # selectedProjectId) =>
                 \E c \in calls \ calls' :
                    /\ c.h = "custom" /\ c.pc = "getProject" /\ c.arg.id = i
                    /\ Truthy(c.arg.password)
                    /\ c.arg.password = db[i].secret
       /\ CustomPasswordClose =>
             openProject' = openProject /\ selectedProjectId' = selectedProjectId
       /\ \A c \in calls :
             (c.h = "custom" /\ CallFails(c)) =>
                 openProject' = openProject /\ selectedProjectId' = selectedProjectId]_vars

\* Item A is open, the dialog asks for the secret of B, and a getProject
\* carrying a wrong secret for B is in flight.
WrongSecretInFlight ==
    /\ openProject.id = "A" /\ selectedProjectId = "A"
    /\ ui.customPasswordProject = "B"
    /\ db["B"].custom /\ ~db["B"].saved
    /\ \E c \in calls : /\ c.h = "custom" /\ c.arg.id = "B"
                        /\ ~CanGet(db, "B", c.arg.password)

\* C27: a deleteProject call is in flight only for a confirmation text equal
\* to the name the deletion dialog was opened with; in the step where it
\* returns, an open item with the deleted id is closed and a selected id
\* equal to it is cleared; in a step where it is rejected, openProject,
\* selectedProjectId and projects stay as they are.
DeleteConfirmedAndCleans ==
    [][/\ \A c \in calls' :
             c.pc = "deleteProject" => c.arg.value = c.arg.name
       /\ \A t \in ConfirmTexts :
             DeleteSubmit(t) => t = ui.deleteTarget.name
       /\ \A c \in calls :
             DeleteDone(c) =>
                /\ openProject.id = c.arg.id => openProject' = NoProject
                /\ selectedProjectId = c.arg.id => selectedProjectId' = NULL
       /\ \A c \in calls :
             (c.pc = "deleteProject" /\ (DeleteFail(c) \/ CallFails(c))) =>
                /\ openProject' = openProject
                /\ selectedProjectId' = selectedProjectId
                /\ projects' = projects]_vars

\* C28: a step in which the unlock screen's handler ends without success
\* (verifyMasterPassword answers false, or one of its calls is rejected)
\* leaves the view at "unlock" and the store without a shared secret; a
\* step in which a save, a creation or a reorder is rejected leaves the view
\* as it is.
FailedUnlockChangesNothing ==
    [][/\ \A c \in calls :
             (/\ c.h = "unlock" /\ c.cur
              /\ \/ CallFails(c)
                 \/ /\ c.pc = "verifyMasterPassword"
                    /\ c.arg.value # backend.master
                    /\ UnlockVerified(c)) =>
                 /\ view = "unlock" /\ view' = "unlock"
                 /\ masterPassword' = NULL
       /\ \A c \in calls :
             (/\ c.h \in {"save", "new", "reorder"}
              /\ CallFails(c) \/ SaveFail(c) \/ ReorderFail(c)) =>
                 view' = view]_vars

\* C29: the view changes only along the transitions of the session state
\* machine: from "loading" to a result of the bootstrap; "init" to
\* "master-password-setup"; "master-password-setup" to "pin-setup";
\* "pin-setup" to "main"; "unlock" to "main" or "pin-setup"; "pin-unlock" to
\* "main" or "unlock"; "main" to "pin-unlock" or "unlock".
ListedTransitionsOnly ==
    [][\/ view' = view
       \/ view = "loading" /\ view' \in {"init", "pin-unlock", "unlock", "main"}
       \/ view = "init" /\ view' = "master-password-setup"
       \/ view = "master-password-setup" /\ view' = "pin-setup"
       \/ view = "pin-setup" /\ view' = "main"
       \/ view = "unlock" /\ view' \in {"main", "pin-setup"}
       \/ view = "pin-unlock" /\ view' \in {"main", "unlock"}
       \/ view = "main" /\ view' \in {"pin-unlock", "unlock"}]_vars

\* C30: a content mutation of the open item, made to a clean buffer or
\* while the debounce timer is pending, leaves the timer with its full
\* 1.5 s to run, so that the commit the timer starts comes no sooner than
\* 1.5 s after the last mutation.
MutationRestartsDebounce ==
    [][\A v \in Contents :
          (/\ ~editor.dirty \/ editor.debounce # NoTimer
           /\ ContentChange(v)) =>
              editor'.debounce = DebounceTicks]_vars

\* C31: in the step where a commit of the mounted editor returns, the dirty
\* flag is cleared, the store's open item is the item of the call with the
\* content the call carried, the status is "saved" and the display timer has
\* its full 2 s to run.
CommitSuccessRecordsCommitted ==
    [][\A c \in calls :
          (c.cur /\ SaveDone(c)) =>
             /\ ~editor'.dirty
             /\ openProject'.id = c.arg.id
             /\ openProject'.content = c.arg.content
             /\ editor'.saveStatus = "saved"
             /\ editor'.saved = SavedTicks]_vars

ActivityTouchesOnly ==
    [][/\ Activity =>
             /\ idle' = 0
             /\ UNCHANGED <<view, masterPassword, projects, selectedProjectId,
                            openProject, hasPinCode, hasSavedSession, dbPath,
                            autoLockMinutes, calls, backendVars, attempts>>
       /\ \/ idle' = idle
          \/ idle' = 0
          \/ Tick /\ idle' = Min(idle + 1, IdleCap)]_vars

\* Time has passed since the last activity in view "main" with the secret in
\* the store: the next interaction changes lastActivity.
IdleInMain ==
    /\ view = "main" /\ masterPassword # NULL
    /\ idle > 0
    /\ ENABLED Activity

\* C34: whenever an item is open in ContentView, the buffer is not dirty and
\* no commit is in flight, the row the backend holds for the open item has
\* the content of the buffer.
CleanBufferIsStored ==
    (/\ view = "main"
     /\ openProject.id \in DOMAIN db
     /\ ~editor.dirty
     /\ \A c \in calls : c.h # "save") =>
        db[openProject.id].content = editor.content

\* C35: the updateProject call the edit dialog issues for the open item
\* carries the content storage holds for that item, also when an autosave
\* commit completed while the dialog was open.
DialogCarriesCommitted ==
    [][\A c \in Issued :
          (c.h = "edit" /\ c.arg.id = openProject.id) =>
              c.arg.content = db[c.arg.id].content]_vars

\* C36: the content of every updateProject call the editor issues descends
\* from the stored text of the item whose id the call carries.
CommitPairsItemWithItsContent ==
    \A c \in calls : c.h = "save" => Owner(c.arg.content) = c.arg.id

\* C37: whenever an item is open, it is the selected item.
OpenIsSelected == openProject.id # NULL => openProject.id = selectedProjectId

\* C38: whenever a commit of the mounted editor is in flight the save status
\* is "saving".
SavingWhileInFlight ==
    (\E c \in calls : c.h = "save" /\ c.cur) => editor.saveStatus = "saving"

\* C39: whenever the view is "main" the store holds the shared secret.
MainHoldsSecret == view = "main" => masterPassword # NULL

\* C40: when the calls the bootstrap awaits return and the bootstrap is not
\* cancelled, the view eventually is no longer "loading"; a view other than
\* "loading" never becomes "loading" again; and once the bootstrap has
\* returned no step of it is taken and its position stays where it is.
BootstrapLeavesLoading ==
    /\ <>(boot.cancelled \/ view # "loading")
    /\ [][view # "loading" => view' # "loading"]_vars
    /\ [][boot.pc = "done" => (~Bootstrap /\ boot' = boot)]_vars

\* C40 happens: the bootstrap returned without being cancelled, and the user
\* went on from the view it chose to the setup of a master password.
BootstrapReturnedAndLeft ==
    /\ boot.pc = "done" /\ ~boot.cancelled
    /\ view = "master-password-setup"
    /\ ~ENABLED Bootstrap

=========================================================================
